---- MODULE Spec2Model ----
(***************************************************************************)
(* Technical analysis and portfolio valuation engine of crypto-neon-coach. *)
(*                                                                         *)
(* Numbers.  The program computes on IEEE doubles.  The model computes on  *)
(* exact rationals held as a numerator and a denominator, and keeps the    *)
(* three non-finite outcomes of a JavaScript division as fractions with    *)
(* denominator 0: NaN = 0/0, Infinity = 1/0, -Infinity = -1/0.  Equality   *)
(* of two such values is identity of the value (NaN equals NaN).           *)
(***************************************************************************)
EXTENDS Integers, Sequences, FiniteSets, TLC

(***************************************************************************)
(* Bounds of the model.                                                    *)
(***************************************************************************)
MaxLen == 5
MaxPrice == 3
MaxPeriod == 3
MaxLevel == 3
MaxPriceLevel == 2
MaxAddQuantity == 1
MaxAdds == 2
NumCalls == 2
MaxSymbolLen == 3
MaxTouchSeriesLen == 9
MaxTouches == 3
MaxTicks == 3

VARIABLES
    prices,            \* calculateRSI: the price series argument
    period,            \* calculateRSI: the period argument
    rsi,               \* calculateRSI: the returned TechnicalIndicatorResult
    ind,               \* performComprehensiveAnalysis: the indicator values it aggregates
    analysis,          \* performComprehensiveAnalysis: the returned overallSignal and confidence
    fn,                \* the library function that was called
    fnArgs,            \* its arguments
    fnResult,          \* what it returned or published, or the exception it threw
    aiService,         \* AIService: apiKey is set; the state of its provider call
    cache,             \* CryptoAPI.cache: the entries {url, data, timestamp}
    now,               \* Date.now(), in milliseconds
    fetches,           \* fetchWithCache: the calls suspended at an await
    hook,              \* which portfolio hook the page mounted
    user,              \* useAuth().user is not null
    market,            \* the price snapshot the provider serves
    portfolios,        \* table public.portfolios: ids of the user's rows
    portfolio_assets,  \* table public.portfolio_assets
    portfolioData,     \* useState<PortfolioData>
    historicalData,    \* useState<HistoricalDataPoint[]>: number of points
    cryptoAssets,      \* localStorage item 'cryptoAssets' of usePortfolioData
    pc,                \* per call in flight: the await it is suspended at
    call,              \* per call in flight: its local variables
    added,             \* per row id: quantity added by addAsset calls that reported success
    adds               \* number of addAsset calls made

taVars == <<prices, period, rsi, ind, analysis, fn, fnArgs, fnResult, aiService, cache, now, fetches>>
pfVars == <<hook, user, market, portfolios, portfolio_assets, portfolioData,
            historicalData, cryptoAssets, pc, call, added, adds>>
vars == <<prices, period, rsi, ind, analysis, fn, fnArgs, fnResult, aiService, cache, now, fetches, hook, user, market, portfolios,
          portfolio_assets, portfolioData, historicalData, cryptoAssets, pc,
          call, added, adds>>

NotRun == [status |-> "NotRun"]

\* No library function has been called.
NoCall ==
    /\ fn = "none"
    /\ fnArgs = NotRun
    /\ fnResult = NotRun
    /\ aiService = [apiKey |-> FALSE, provider |-> "idle"]
    /\ cache = {}
    /\ now = 0
    /\ fetches = {}

(***************************************************************************)
(* Arithmetic helpers.                                                     *)
(***************************************************************************)
Abs(x) == IF x < 0 THEN -x ELSE x

RECURSIVE GCD(_, _)
GCD(a, b) == IF b = 0 THEN a ELSE GCD(b, a % b)

\* a / b of two JavaScript numbers that are integers: an exact reduced
\* fraction, or a non-finite value when b = 0.
NaN == [num |-> 0, den |-> 0]
PlusInfinity == [num |-> 1, den |-> 0]
MinusInfinity == [num |-> -1, den |-> 0]
Int2Num(n) == [num |-> n, den |-> 1]

JSDiv(a, b) ==
    IF b = 0
    THEN IF a = 0 THEN NaN ELSE IF a > 0 THEN PlusInfinity ELSE MinusInfinity
    ELSE LET s == IF b < 0 THEN -1 ELSE 1
             g == GCD(Abs(a), Abs(b))
         IN  [num |-> (s * a) \div g, den |-> (s * b) \div g]

IsFinite(x) == x.den # 0

\* n / d rounded to the nearest integer, halves up (n >= 0, d > 0).
RoundDiv(n, d) == (2 * n + d) \div (2 * d)

(***************************************************************************)
(* TechnicalAnalysis.calculateRSI.                                         *)
(*                                                                         *)
(* avgGain and avgLoss are exact reduced fractions.                        *)
(***************************************************************************)
\* prices[i] - prices[i-1] of the code (0-based i) on the 1-based sequence.
Change(p, i) == p[i + 1] - p[i]

RECURSIVE InitialGains(_, _)
InitialGains(p, i) ==
    IF i = 0 THEN 0
    ELSE InitialGains(p, i - 1) + (IF Change(p, i) > 0 THEN Change(p, i) ELSE 0)

RECURSIVE InitialLosses(_, _)
InitialLosses(p, i) ==
    IF i = 0 THEN 0
    ELSE InitialLosses(p, i - 1) + (IF Change(p, i) > 0 THEN 0 ELSE Abs(Change(p, i)))

\* avgGain after the smoothing loop has handled index i (i = per: only the
\* initial average gains / period).
RECURSIVE avgGain(_, _, _)
avgGain(p, per, i) ==
    IF i = per THEN JSDiv(InitialGains(p, per), per)
    ELSE LET prev == avgGain(p, per, i - 1)
             gain == IF Change(p, i) > 0 THEN Change(p, i) ELSE 0
         IN  JSDiv(prev.num * (per - 1) + gain * prev.den, per * prev.den)

RECURSIVE avgLoss(_, _, _)
avgLoss(p, per, i) ==
    IF i = per THEN JSDiv(InitialLosses(p, per), per)
    ELSE LET prev == avgLoss(p, per, i - 1)
             loss == IF Change(p, i) < 0 THEN Abs(Change(p, i)) ELSE 0
         IN  JSDiv(prev.num * (per - 1) + loss * prev.den, per * prev.den)

\* rsi = 100 - 100 / (1 + rs) with rs = avgGain / avgLoss, as a JavaScript
\* number: 0/0 gives rs = NaN and rsi = NaN; x/0 with x > 0 gives
\* rs = Infinity and rsi = 100 - 0 = 100.
RsiRaw(g, l) ==
    IF l.num = 0
    THEN IF g.num = 0 THEN NaN ELSE Int2Num(100)
    ELSE LET rs == JSDiv(g.num * l.den, l.num * g.den)
         IN  JSDiv(100 * rs.num, rs.num + rs.den)

\* Comparisons of the raw rsi with a threshold; every comparison with NaN is false.
RsiLE(r, t) == IsFinite(r) /\ r.num <= t * r.den
RsiGE(r, t) == IsFinite(r) /\ r.num >= t * r.den

\* Number(x.toFixed(2)) for x >= 0.
ToFixed2(r) == IF IsFinite(r) THEN JSDiv(RoundDiv(100 * r.num, r.den), 100) ELSE r

calculateRSI(p, per) ==
    IF Len(p) < per + 1
    THEN [value |-> Int2Num(50), signal |-> "HOLD", strength |-> "NEUTRAL"]
    ELSE LET r == RsiRaw(avgGain(p, per, Len(p) - 1), avgLoss(p, per, Len(p) - 1))
         IN  [value    |-> ToFixed2(r),
              signal   |-> IF RsiLE(r, 30) THEN "BUY"
                           ELSE IF RsiGE(r, 70) THEN "SELL" ELSE "HOLD",
              strength |-> IF RsiLE(r, 30)
                           THEN (IF RsiLE(r, 20) THEN "STRONG" ELSE "WEAK")
                           ELSE IF RsiGE(r, 70)
                           THEN (IF RsiGE(r, 80) THEN "STRONG" ELSE "WEAK")
                           ELSE "NEUTRAL"]

(***************************************************************************)
(* Inputs of the indicator functions.                                      *)
(***************************************************************************)
PriceLevels == 1..MaxPrice

SeqsUpTo(S, n) == UNION {[1..k -> S] : k \in 0..n}

\* Example scenario 1 of the specification: prices 1, 2, ..., 20, period 14.
RisingSeries == [i \in 1..20 |-> i]
DefaultPeriod == 14

\* A series of 15 prices whose rsi lies just above 30: the changes are
\* -1402, +601 and twelve times 0, so rsi = 100 * 601 / 2003 = 30.00499...
BoundarySeries == [i \in 1..15 |-> IF i = 1 THEN 2003 ELSE IF i = 2 THEN 601 ELSE 1202]

SeriesInputs ==
    {<<p, per>> : p \in SeqsUpTo(PriceLevels, MaxLen), per \in 1..MaxPeriod}
    \cup {<<RisingSeries, DefaultPeriod>>, <<BoundarySeries, DefaultPeriod>>}

(***************************************************************************)
(* TechnicalAnalysis.performComprehensiveAnalysis: the signal aggregation. *)
(* ind holds what the indicator calls of lines 285-289 returned.           *)
(***************************************************************************)
bullishSignals(x) ==
      (IF x.rsiSignal = "BUY" THEN 1 ELSE 0)
    + (IF x.currentPrice > x.sma20 THEN 1 ELSE 0)
    + (IF x.currentPrice > x.sma50 THEN 1 ELSE 0)
    + (IF x.macd > x.signal THEN 1 ELSE 0)

BearishSignalsInclusive(x) ==
      (IF x.rsiSignal = "SELL" THEN 1 ELSE 0)
    + (IF x.currentPrice <= x.sma20 THEN 1 ELSE 0)
    + (IF x.currentPrice < x.sma50 THEN 1 ELSE 0)
    + (IF x.macd < x.signal THEN 1 ELSE 0)

bearishSignals(x) ==
      (IF x.rsiSignal = "SELL" THEN 1 ELSE 0)
    + (IF x.currentPrice < x.sma20 THEN 1 ELSE 0)
    + (IF x.currentPrice < x.sma50 THEN 1 ELSE 0)
    + (IF x.macd < x.signal THEN 1 ELSE 0)

overallSignal(b, r) ==
    IF b > r THEN "BULLISH" ELSE IF r > b THEN "BEARISH" ELSE "NEUTRAL"

\* Math.abs(b - r) / (b + r) * 100
confidence(b, r) ==
    LET q == JSDiv(Abs(b - r), b + r)
    IN  IF IsFinite(q) THEN JSDiv(q.num * 100, q.den) ELSE q

performComprehensiveAnalysis(x) ==
    [overallSignal |-> overallSignal(bullishSignals(x), bearishSignals(x)),
     confidence    |-> confidence(bullishSignals(x), bearishSignals(x))]

IndicatorInputs ==
    [rsiSignal    : {"BUY", "SELL", "HOLD"},
     currentPrice : 1..MaxLevel,
     sma20        : 0..MaxLevel,
     sma50        : 0..MaxLevel,
     macd         : -1..1,
     signal       : -1..1]

\* A price series too short for the indicators: nothing to aggregate yet.
NoIndicators ==
    [rsiSignal |-> "HOLD", currentPrice |-> 0, sma20 |-> 0, sma50 |-> 0,
     macd |-> 0, signal |-> 0]

(***************************************************************************)
(* TechnicalAnalysis: moving averages, MACD, Bollinger bands, Fibonacci    *)
(* retracement.                                                            *)
(*                                                                         *)
(* A number that went through Number(x.toFixed(4)) is a multiple of        *)
(* 1/Scale and is held as its integer count of 1/Scale.  Prices of a       *)
(* series are integers.                                                    *)
(***************************************************************************)
Scale == 10000

Max(a, b) == IF a >= b THEN a ELSE b
Min(a, b) == IF a <= b THEN a ELSE b

\* n / d rounded to the nearest integer, halves away from zero (d > 0):
\* the rounding of Number.prototype.toFixed.
RoundSigned(n, d) == IF n < 0 THEN -RoundDiv(-n, d) ELSE RoundDiv(n, d)

\* Number(x.toFixed(4)) of the finite number x, as a count of 1/Scale.
ToFixed4(x) == RoundSigned(x.num * Scale, x.den)

\* prices.slice(-n)
SliceLast(p, n) ==
    IF n > 0 THEN SubSeq(p, Max(Len(p) - n, 0) + 1, Len(p))
    ELSE SubSeq(p, Min(-n, Len(p)) + 1, Len(p))

RECURSIVE Sum(_)
Sum(s) == IF s = <<>> THEN 0 ELSE Head(s) + Sum(Tail(s))

\* A variant that averages the first n prices: prices.slice(0, n).
SMAOfFirst(p, n) ==
    IF Len(p) < n THEN 0
    ELSE ToFixed4(JSDiv(Sum(SubSeq(p, 1, n)), n))

\* calculateSMA for a period >= 1.
calculateSMA(p, n) ==
    IF Len(p) < n THEN 0
    ELSE ToFixed4(JSDiv(Sum(SliceLast(p, n)), n))

\* ema after the loop of calculateEMA has handled the first i values:
\* ema = values[i] * 2/(n+1) + ema * (1 - 2/(n+1)), an exact fraction.
RECURSIVE emaAfter(_, _, _)
emaAfter(v, n, i) ==
    IF i = 1 THEN Int2Num(v[1])
    ELSE LET ema == emaAfter(v, n, i - 1)
         IN  JSDiv(2 * v[i] * ema.den + (n - 1) * ema.num, (n + 1) * ema.den)

\* A variant that runs the recurrence over the last n values only.
EMAOfLast(v, unit, n) ==
    IF Len(v) < n THEN 0
    ELSE LET ema == emaAfter(SliceLast(v, n), n, n)
         IN  RoundSigned(ema.num * (Scale \div unit), ema.den)

\* calculateEMA for a period >= 1, of values that count 1/unit each
\* (unit = 1 for prices, unit = Scale for differences of rounded numbers).
calculateEMA(v, unit, n) ==
    IF Len(v) < n THEN 0
    ELSE LET ema == emaAfter(v, n, Len(v))
         IN  RoundSigned(ema.num * (Scale \div unit), ema.den)

\* ema12 - ema26 of the first len prices.
macdOf(p, len) ==
    calculateEMA(SubSeq(p, 1, len), 1, 12) - calculateEMA(SubSeq(p, 1, len), 1, 26)

\* for (i = 26; i < prices.length; i++) macdHistory.push(ema12 - ema26) of
\* prices.slice(0, i + 1)
macdHistory(p) == [k \in 1..Max(Len(p) - 26, 0) |-> macdOf(p, 26 + k)]

calculateMACD(p) ==
    LET macd   == macdOf(p, Len(p))
        signal == calculateEMA(macdHistory(p), Scale, 9)
    IN  [macd |-> macd, signal |-> signal, histogram |-> macd - signal]

\* sum of (price - sma)^2 over the slice, in units of 1/(den * den), where
\* sma = num / den.
RECURSIVE SquaredDeviations(_, _, _)
SquaredDeviations(slice, num, den) ==
    IF slice = <<>> THEN 0
    ELSE (Head(slice) * den - num) * (Head(slice) * den - num)
         + SquaredDeviations(Tail(slice), num, den)

\* Number((sma + stdDev * k).toFixed(4)) with stdDev = Math.sqrt(variance)
\* and variance = squares / (den * den) / period.  The square root is not a
\* fraction: a band is held as the parts it is computed from.
Band(sma, k, squares, den, n) ==
    [sma |-> sma, k |-> k, squares |-> squares, den |-> den, period |-> n]

\* |k * stdDev| < 0.5 / Scale, so that the offset of the band rounds to 0:
\* 4 * k^2 * (Scale / den)^2 * squares < period.
RoundsToMiddle(band) ==
    \/ band.k = 0
    \/ band.squares = 0
    \/ band.squares <= ((band.period - 1) \div (4 * band.k * band.k))
                          \div ((Scale \div band.den) * (Scale \div band.den))

\* band >= band.sma and band <= band.sma as rounded numbers.
BandGEMiddle(band) == band.k >= 0 \/ RoundsToMiddle(band)
BandLEMiddle(band) == band.k <= 0 \/ RoundsToMiddle(band)

\* A variant with the offsets of the two bands exchanged.
BollingerBandsExchanged(p, n, k) ==
    LET sma     == calculateSMA(p, n)
        m       == JSDiv(sma, Scale)
        squares == SquaredDeviations(SliceLast(p, n), m.num, m.den)
    IN  [upper  |-> Band(sma, -k, squares, m.den, n),
         middle |-> sma,
         lower  |-> Band(sma, k, squares, m.den, n)]

\* calculateBollingerBands for a period >= 1 and a multiplier >= 0.
calculateBollingerBands(p, n, k) ==
    LET sma     == calculateSMA(p, n)
        m       == JSDiv(sma, Scale)
        squares == SquaredDeviations(SliceLast(p, n), m.num, m.den)
    IN  [upper  |-> Band(sma, k, squares, m.den, n),
         middle |-> sma,
         lower  |-> Band(sma, -k, squares, m.den, n)]

\* The ratios of calculateFibonacciRetracement in thousandths, in label
\* order 0%, 23.6%, 38.2%, 50%, 61.8%, 78.6%, 100%.
FibonacciRatios == <<0, 236, 382, 500, 618, 786, 1000>>

\* calculateFibonacciRetracement(high, low) for high = h / unit and
\* low = l / unit: the seven levels in label order.
calculateFibonacciRetracement(h, l, unit) ==
    [i \in 1..7 |->
        IF i = 1 THEN ToFixed4(JSDiv(h, unit))
        ELSE IF i = 7 THEN ToFixed4(JSDiv(l, unit))
        ELSE ToFixed4(JSDiv(1000 * h - (h - l) * FibonacciRatios[i], 1000 * unit))]

(***************************************************************************)
(* TechnicalAnalysis.calculateSupportResistance.  A level is an exact      *)
(* fraction (averaging two levels halves their sum).                       *)
(***************************************************************************)
\* The loop indexes i = 2 .. length - 3 of the code, as 1-based positions.
InnerPositions(p) == [k \in 1..Max(Len(p) - 4, 0) |-> k + 2]

IsLocalMin(p, j) ==
    p[j] <= p[j - 1] /\ p[j] <= p[j - 2] /\ p[j] <= p[j + 1] /\ p[j] <= p[j + 2]

IsLocalMax(p, j) ==
    p[j] >= p[j - 1] /\ p[j] >= p[j - 2] /\ p[j] >= p[j + 1] /\ p[j] >= p[j + 2]

\* The arrays support and resistance after the loop.
supportTouches(p) ==
    LET at == SelectSeq(InnerPositions(p), LAMBDA j : IsLocalMin(p, j))
    IN  [k \in 1..Len(at) |-> Int2Num(p[at[k]])]

resistanceTouches(p) ==
    LET at == SelectSeq(InnerPositions(p), LAMBDA j : IsLocalMax(p, j))
    IN  [k \in 1..Len(at) |-> Int2Num(p[at[k]])]

\* Math.abs(a - b) / a < 1 / q for fractions a and b: a division by a = 0
\* gives Infinity or NaN (false), by a < 0 a number <= 0 (true).
RelativeDifferenceBelow(a, b, q) ==
    IF a.num = 0 THEN FALSE
    ELSE IF a.num < 0 THEN TRUE
    ELSE q * Abs(a.num * b.den - b.num * a.den) < a.num * b.den

\* (a + b) / 2
Average(a, b) == JSDiv(a.num * b.den + b.num * a.den, 2 * a.den * b.den)

\* grouped after levels.forEach has handled the first i levels.
RECURSIVE grouped(_, _)
grouped(levels, i) ==
    IF i = 0 THEN <<>>
    ELSE LET g    == grouped(levels, i - 1)
             near == {k \in 1..Len(g) : RelativeDifferenceBelow(g[k].level, levels[i], 100)}
         IN  IF near # {}
             THEN LET k == CHOOSE x \in near : \A y \in near : x <= y
                  IN  [g EXCEPT ![k] = [level |-> Average(g[k].level, levels[i]),
                                        count |-> g[k].count + 1]]
             ELSE Append(g, [level |-> levels[i], count |-> 1])

\* Array.prototype.sort((a, b) => b.count - a.count): stable, by count
\* descending.  Insert x behind every element whose count is not smaller.
InsertByCount(sorted, x) ==
    LET ahead == Cardinality({k \in 1..Len(sorted) : sorted[k].count >= x.count})
    IN  SubSeq(sorted, 1, ahead) \o <<x>> \o SubSeq(sorted, ahead + 1, Len(sorted))

RECURSIVE SortByCount(_)
SortByCount(s) ==
    IF s = <<>> THEN <<>>
    ELSE InsertByCount(SortByCount(SubSeq(s, 1, Len(s) - 1)), s[Len(s)])

groupLevels(levels, minTouches) ==
    LET kept   == SelectSeq(grouped(levels, Len(levels)), LAMBDA g : g.count >= minTouches)
        sorted == SortByCount(kept)
    IN  [k \in 1..Min(3, Len(sorted)) |-> sorted[k].level]

calculateSupportResistance(p, minTouches) ==
    [support    |-> groupLevels(supportTouches(p), minTouches),
     resistance |-> groupLevels(resistanceTouches(p), minTouches)]

DefaultMinTouches == 2

(***************************************************************************)
(* TechnicalAnalysis.detectPatterns.  target and stopLoss are rounded to   *)
(* four decimals: counts of 1/Scale.                                       *)
(***************************************************************************)
RECURSIVE SeqMax(_)
SeqMax(s) == IF Len(s) = 1 THEN s[1] ELSE Max(Head(s), SeqMax(Tail(s)))

\* recentPrices.indexOf(Math.max(...recentPrices)), 0-based.
maxIndex(recent) ==
    (CHOOSE i \in 1..Len(recent) :
        /\ recent[i] = SeqMax(recent)
        /\ \A j \in 1..(i - 1) : recent[j] # SeqMax(recent)) - 1

\* A variant that accepts a head one position further out on either side.
HeadAndShouldersWider(p) ==
    IF Len(p) < 20 THEN <<>>
    ELSE LET recent == SliceLast(p, 20)
             mi     == maxIndex(recent)
         IN  IF mi < 4 \/ mi > 16 THEN <<>>
             ELSE LET leftShoulder  == SeqMax(SubSeq(recent, 1, mi - 2))
                      rightShoulder == SeqMax(SubSeq(recent, mi + 3, 20))
                      head          == recent[mi + 1]
                  IN  IF /\ head > leftShoulder
                         /\ head > rightShoulder
                         /\ RelativeDifferenceBelow(Int2Num(leftShoulder),
                                                    Int2Num(rightShoulder), 20)
                      THEN <<[pattern |-> "Head and Shoulders", probability |-> 75,
                              direction |-> "BEARISH",
                              target |-> p[Len(p)] * 9500,
                              stopLoss |-> head * 10200]>>
                      ELSE <<>>

headAndShoulders(p) ==
    IF Len(p) < 20 THEN <<>>
    ELSE LET recent == SliceLast(p, 20)
             mi     == maxIndex(recent)
         IN  IF mi < 5 \/ mi > 15 THEN <<>>
             ELSE LET leftShoulder  == SeqMax(SubSeq(recent, 1, mi - 2))
                      rightShoulder == SeqMax(SubSeq(recent, mi + 3, 20))
                      head          == recent[mi + 1]
                  IN  IF /\ head > leftShoulder
                         /\ head > rightShoulder
                         /\ RelativeDifferenceBelow(Int2Num(leftShoulder),
                                                    Int2Num(rightShoulder), 20)
                      THEN <<[pattern |-> "Head and Shoulders", probability |-> 75,
                              direction |-> "BEARISH",
                              target |-> p[Len(p)] * 9500,
                              stopLoss |-> head * 10200]>>
                      ELSE <<>>

\* recentHighs and recentLows: the prices at the strict local extremes.
recentHighs(p) ==
    LET at == SelectSeq(InnerPositions(p), LAMBDA j : p[j] > p[j - 1] /\ p[j] > p[j + 1])
    IN  [k \in 1..Len(at) |-> p[at[k]]]

recentLows(p) ==
    LET at == SelectSeq(InnerPositions(p), LAMBDA j : p[j] < p[j - 1] /\ p[j] < p[j + 1])
    IN  [k \in 1..Len(at) |-> p[at[k]]]

doubleTop(p) ==
    IF Len(p) < 30 \/ Len(recentHighs(p)) < 2 THEN <<>>
    ELSE LET lastTwo == SliceLast(recentHighs(p), 2)
         IN  IF RelativeDifferenceBelow(Int2Num(lastTwo[1]), Int2Num(lastTwo[2]), 50)
             THEN <<[pattern |-> "Double Top", probability |-> 70,
                     direction |-> "BEARISH",
                     target |-> p[Len(p)] * 9400,
                     stopLoss |-> Max(lastTwo[1], lastTwo[2]) * 10200]>>
             ELSE <<>>

doubleBottom(p) ==
    IF Len(p) < 30 \/ Len(recentLows(p)) < 2 THEN <<>>
    ELSE LET lastTwo == SliceLast(recentLows(p), 2)
         IN  IF RelativeDifferenceBelow(Int2Num(lastTwo[1]), Int2Num(lastTwo[2]), 50)
             THEN <<[pattern |-> "Double Bottom", probability |-> 70,
                     direction |-> "BULLISH",
                     target |-> p[Len(p)] * 10600,
                     stopLoss |-> Min(lastTwo[1], lastTwo[2]) * 9800]>>
             ELSE <<>>

detectPatterns(p) == headAndShoulders(p) \o doubleTop(p) \o doubleBottom(p)

(***************************************************************************)
(* TechnicalAnalysis.performComprehensiveAnalysis on a price series.       *)
(***************************************************************************)
\* What a call did: it returned a value, or it threw.
Returned(v) == [outcome |-> "returned", value |-> v]
Threw(e) == [outcome |-> "threw", value |-> e]

\* The indicator values of lines 285-289 for a non-empty series.
indicatorsOf(p) ==
    [rsiSignal    |-> calculateRSI(p, DefaultPeriod).signal,
     currentPrice |-> p[Len(p)] * Scale,
     sma20        |-> calculateSMA(p, 20),
     sma50        |-> calculateSMA(p, 50),
     macd         |-> calculateMACD(p).macd,
     signal       |-> calculateMACD(p).signal]

\* The object returned at lines 310-321 for a non-empty series.
analysisResult(p) ==
    [currentPrice      |-> p[Len(p)] * Scale,
     rsi               |-> calculateRSI(p, DefaultPeriod),
     sma20             |-> calculateSMA(p, 20),
     sma50             |-> calculateSMA(p, 50),
     macd              |-> calculateMACD(p),
     bollingerBands    |-> calculateBollingerBands(p, 20, 2),
     supportResistance |-> calculateSupportResistance(p, DefaultMinTouches),
     patterns          |-> detectPatterns(p),
     overallSignal     |-> performComprehensiveAnalysis(indicatorsOf(p)).overallSignal,
     confidence        |-> performComprehensiveAnalysis(indicatorsOf(p)).confidence]

\* A variant that throws on a series shorter than the RSI window.
ComprehensiveAnalysisNeedsHistory(p) ==
    IF Len(p) < DefaultPeriod + 1 THEN Threw("TypeError")
    ELSE Returned(analysisResult(p))

\* For the empty series currentPrice is undefined and
\* currentPrice.toFixed(4) at line 311 throws a TypeError; nothing before
\* that line throws.
comprehensiveAnalysis(p) ==
    IF p = <<>> THEN Threw("TypeError")
    ELSE Returned(analysisResult(p))

(***************************************************************************)
(* Arguments of the library functions.                                     *)
(***************************************************************************)
\* Series long enough for the windows 9, 12, 14, 20, 26 and 50 of the
\* code: constant up to the last price.
LongLengths == {11, 12, 14, 15, 19, 20, 25, 26, 27, 34, 35, 36, 49, 50, 51}
LongPeriods == {9, 12, 14, 20, 26, 50}
LastJump(len, c, d) == [i \in 1..len |-> IF i = len THEN d ELSE c]
LongSeries == {LastJump(len, c, d) : len \in LongLengths, c \in PriceLevels, d \in PriceLevels}

Multipliers == {0, 1, 2}

IndicatorArgs ==
    [prices : SeqsUpTo(PriceLevels, MaxLen), period : 1..MaxPeriod, multiplier : Multipliers]
    \cup [prices : LongSeries, period : LongPeriods, multiplier : {2}]

\* high = h / unit and low = l / unit: whole prices, and small prices in
\* hundred-thousandths (0.00001, 0.00002, ...).
FibonacciLevelCounts == (0..MaxLevel) \cup {50, 100}
FibonacciArgs ==
    [high : FibonacciLevelCounts, low : FibonacciLevelCounts, unit : {1}]
    \cup [high : 0..MaxLevel, low : 0..MaxLevel, unit : {100000}]

(***************************************************************************)
(* Portfolio valuation: data.                                              *)
(*                                                                         *)
(* Arrays of holdings are held as sets (a holding is identified by its     *)
(* row id); the order of an array is not modelled.  A field that is        *)
(* undefined, null, NaN or 0 in the program is 0 here: the code tests      *)
(* these fields only with || and with truthiness, which treat the four     *)
(* alike.                                                                  *)
(***************************************************************************)
Symbols == {"BTC", "ETH"}
SymbolOrder == <<"BTC", "ETH">>
Calls == 1..NumCalls
Prices == {100 * k : k \in 1..MaxPriceLevel}
Changes == {5, 100}
AddQuantities == 1..MaxAddQuantity

\* What the provider holds for one symbol; price 0: no price for it.
NoQuote == [price |-> 0, change_24h |-> 0]
Quotes == {NoQuote} \cup [price : Prices, change_24h : Changes]

\* String.prototype.toLowerCase and toUpperCase on the symbols in use.
toLowerCase(s) ==
    IF s = "BTC" THEN "btc" ELSE IF s = "ETH" THEN "eth" ELSE s
toUpperCase(s) ==
    IF s = "btc" THEN "BTC" ELSE IF s = "eth" THEN "ETH" ELSE s

\* The provider's answer is keyed by lower-case symbol.
Markets == [{toLowerCase(s) : s \in Symbols} -> Quotes]

\* The symbols a caller of addAsset passes.
ArgSymbols == {"btc", "ETH"}
PortfolioIds == 1..NumCalls

RowId(pid, sym) == <<pid, sym>>

\* A row of portfolio_assets as select('*') returns it.  The row has no
\* currentPrice field.
DbRow(pid, sym, q, pp, cp, tv) ==
    [id |-> RowId(pid, sym), portfolio_id |-> pid, symbol |-> sym,
     quantity |-> q, purchase_price |-> pp, current_price |-> cp,
     total_value |-> tv, currentPrice |-> 0, created_at |-> TRUE]

\* A published CryptoAsset handed to updateAssetsWithLivePrices as a row:
\* it has no current_price, total_value or created_at field.
AssetAsRow(a) ==
    [id |-> a.id, portfolio_id |-> a.id[1], symbol |-> a.symbol,
     quantity |-> a.quantity, purchase_price |-> a.purchase_price,
     current_price |-> 0, total_value |-> 0, currentPrice |-> a.currentPrice,
     created_at |-> FALSE]

NullError == "null"

InitialPortfolioData ==
    [assets |-> {}, totalValue |-> 0, totalChange |-> 0,
     changePercent |-> Int2Num(0), isLoading |-> TRUE, error |-> NullError]

EmptyPortfolioData ==
    [assets |-> {}, totalValue |-> 0, totalChange |-> 0,
     changePercent |-> Int2Num(0), isLoading |-> FALSE, error |-> NullError]

NoArgs == [symbol |-> "", quantity |-> 0, currentPrice |-> 0]

IdleCall ==
    [portfolioId |-> 0, withPortfolioId |-> FALSE, dbAssets |-> {},
     todo |-> <<>>, args |-> NoArgs]

RECURSIVE SumTotalValue(_)
SumTotalValue(S) ==
    IF S = {} THEN 0
    ELSE LET a == CHOOSE x \in S : TRUE
         IN  a.totalValue + SumTotalValue(S \ {a})

(***************************************************************************)
(* useSupabasePortfolio.updateAssetsWithLivePrices: the computation.       *)
(***************************************************************************)
\* liveData?.price || parseFloat(asset.current_price)
\*                 || parseFloat(asset.purchase_price) || 0
LiveCurrentPrice(asset, livePrices) ==
    IF livePrices[toLowerCase(asset.symbol)].price # 0 THEN livePrices[toLowerCase(asset.symbol)].price
    ELSE IF asset.current_price # 0 THEN asset.current_price
    ELSE asset.purchase_price

\* parseFloat(asset.current_price) || parseFloat(asset.purchase_price) || 0
FallbackCurrentPrice(asset) ==
    IF asset.current_price # 0 THEN asset.current_price ELSE asset.purchase_price

UpdatedAssetStoredValue(asset, livePrices) ==
    [id |-> asset.id, symbol |-> toUpperCase(asset.symbol), quantity |-> asset.quantity,
     currentPrice |-> LiveCurrentPrice(asset, livePrices),
     priceChange24h |-> livePrices[toLowerCase(asset.symbol)].change_24h,
     totalValue |-> asset.quantity * FallbackCurrentPrice(asset),
     addedDate |-> asset.created_at,
     purchase_price |-> asset.purchase_price]

updatedAsset(asset, livePrices) ==
    [id |-> asset.id, symbol |-> toUpperCase(asset.symbol), quantity |-> asset.quantity,
     currentPrice |-> LiveCurrentPrice(asset, livePrices),
     priceChange24h |-> livePrices[toLowerCase(asset.symbol)].change_24h,
     totalValue |-> asset.quantity * LiveCurrentPrice(asset, livePrices),
     addedDate |-> asset.created_at,
     purchase_price |-> asset.purchase_price]

fallbackAsset(asset) ==
    [id |-> asset.id, symbol |-> toUpperCase(asset.symbol), quantity |-> asset.quantity,
     currentPrice |-> FallbackCurrentPrice(asset),
     priceChange24h |-> 0,
     totalValue |-> asset.quantity * FallbackCurrentPrice(asset),
     addedDate |-> asset.created_at,
     purchase_price |-> asset.purchase_price]

\* totalChange: the sum, over the assets that have a purchase price, of
\* (currentPrice - purchase_price) * quantity.
RECURSIVE SumPurchaseChange(_)
SumPurchaseChange(S) ==
    IF S = {} THEN 0
    ELSE LET a == CHOOSE x \in S : TRUE
         IN  (IF a.purchase_price # 0
              THEN (a.currentPrice - a.purchase_price) * a.quantity ELSE 0)
             + SumPurchaseChange(S \ {a})

\* totalValue > 0 ? (totalChange / (totalValue - totalChange)) * 100 : 0
changePercent(totalValue, totalChange) ==
    IF totalValue > 0
    THEN JSDiv(totalChange * 100, totalValue - totalChange)
    ELSE Int2Num(0)

\* The setPortfolioData of the live-price path.
LivePortfolioData(dbAssets, livePrices) ==
    LET updatedAssets == {updatedAsset(asset, livePrices) : asset \in dbAssets}
        totalValue == SumTotalValue(updatedAssets)
        totalChange == SumPurchaseChange(updatedAssets)
    IN  [assets |-> updatedAssets, totalValue |-> totalValue,
         totalChange |-> totalChange,
         changePercent |-> changePercent(totalValue, totalChange),
         isLoading |-> FALSE, error |-> NullError]

\* The setPortfolioData of the catch block.
FallbackPortfolioData(dbAssets) ==
    LET fallbackAssets == {fallbackAsset(asset) : asset \in dbAssets}
    IN  [assets |-> fallbackAssets, totalValue |-> SumTotalValue(fallbackAssets),
         totalChange |-> 0, changePercent |-> Int2Num(0),
         isLoading |-> FALSE, error |-> NullError]

\* generateHistoricalData: 30 points for a non-empty asset list.
HistoricalPoints == 30
generateHistoricalData(assets) == IF assets = {} THEN 0 ELSE HistoricalPoints

\* A variant that writes back without a portfolioId as well.
RECURSIVE WriteOrderOfAnyCall(_, _, _, _)
WriteOrderOfAnyCall(dbAssets, livePrices, withPortfolioId, i) ==
    IF i > Len(SymbolOrder) THEN <<>>
    ELSE LET here == {a \in dbAssets : a.symbol = SymbolOrder[i]
                                      /\ livePrices[toLowerCase(a.symbol)].price # 0}
         IN  (IF here = {} THEN <<>> ELSE <<(CHOOSE a \in here : TRUE).id>>)
             \o WriteOrderOfAnyCall(dbAssets, livePrices, withPortfolioId, i + 1)

\* The rows the live-price path writes back, in the order of the loop:
\* those with a live price, when the call was given a portfolioId.
RECURSIVE WriteOrder(_, _, _, _)
WriteOrder(dbAssets, livePrices, withPortfolioId, i) ==
    IF i > Len(SymbolOrder) THEN <<>>
    ELSE LET here == {a \in dbAssets : a.symbol = SymbolOrder[i]
                                      /\ withPortfolioId
                                      /\ livePrices[toLowerCase(a.symbol)].price # 0}
         IN  (IF here = {} THEN <<>> ELSE <<(CHOOSE a \in here : TRUE).id>>)
             \o WriteOrder(dbAssets, livePrices, withPortfolioId, i + 1)

\* No portfolio hook is mounted (specifications of the pure functions).
PortfolioUnmounted ==
    /\ hook = "none"
    /\ user = FALSE
    /\ market = [s \in {toLowerCase(x) : x \in Symbols} |-> NoQuote]
    /\ portfolios = {}
    /\ portfolio_assets = {}
    /\ portfolioData = InitialPortfolioData
    /\ historicalData = 0
    /\ cryptoAssets = {}
    /\ pc = [c \in Calls |-> "idle"]
    /\ call = [c \in Calls |-> IdleCall]
    /\ added = [id \in PortfolioIds \X Symbols |-> 0]
    /\ adds = 0

(***************************************************************************)
(* useSupabasePortfolio: the hook's handlers.  Every handler is async; an  *)
(* action is the part of a handler that runs between two awaits, and       *)
(* pc[c] names the await that call c is suspended at.                      *)
(***************************************************************************)
otherVars == <<prices, period, rsi, ind, analysis, fn, fnArgs, fnResult, aiService, cache, now, fetches,
              hook, user, market, cryptoAssets>>

Finish(c) ==
    /\ pc' = [pc EXCEPT ![c] = "idle"]
    /\ call' = [call EXCEPT ![c] = IdleCall]

Goto(c, label) == pc' = [pc EXCEPT ![c] = label]

\* A new call takes the first free slot (the slots are interchangeable).
FreeSlot(c) == pc[c] = "idle" /\ \A d \in Calls : d < c => pc[d] # "idle"

RowsOfPortfolio(pid) == {r \in portfolio_assets : r.portfolio_id = pid}

\* loadPortfolio up to its first await: the select on portfolios.
BeginLoad(c) ==
    /\ portfolioData' = [portfolioData EXCEPT !.isLoading = TRUE, !.error = NullError]
    /\ Goto(c, "load.portfolios")

StartLoadPortfolio(c) ==
    /\ hook = "supabase"
    /\ FreeSlot(c)
    /\ user
    /\ BeginLoad(c)
    /\ UNCHANGED <<call, portfolios, portfolio_assets, historicalData, added, adds>>
    /\ UNCHANGED otherVars

\* A variant of the catch block that leaves isLoading as it is.
LoadFailedStillLoading(c) ==
    /\ portfolioData' = [portfolioData EXCEPT !.error = "message"]
    /\ Finish(c)
    /\ UNCHANGED <<portfolios, portfolio_assets, historicalData, added, adds>>
    /\ UNCHANGED otherVars

\* The catch block of loadPortfolio.
LoadFailed(c) ==
    /\ portfolioData' = [portfolioData EXCEPT !.error = "message", !.isLoading = FALSE]
    /\ Finish(c)
    /\ UNCHANGED <<portfolios, portfolio_assets, historicalData, added, adds>>
    /\ UNCHANGED otherVars

\* The select on portfolios answers: an error, no row, or one row
\* (limit(1) without an order: any of the user's rows).
LoadPortfoliosAnswer(c) ==
    /\ pc[c] = "load.portfolios"
    /\ \/ LoadFailed(c)
       \/ /\ portfolios = {}
          /\ Goto(c, "load.insert")
          /\ UNCHANGED <<call, portfolioData, portfolios, portfolio_assets,
                         historicalData, added, adds>>
          /\ UNCHANGED otherVars
       \/ /\ \E pid \in portfolios :
                call' = [call EXCEPT ![c].portfolioId = pid]
          /\ Goto(c, "load.assets")
          /\ UNCHANGED <<portfolioData, portfolios, portfolio_assets,
                         historicalData, added, adds>>
          /\ UNCHANGED otherVars

\* The insert of the default portfolio answers.
LoadInsertAnswer(c) ==
    /\ pc[c] = "load.insert"
    /\ \/ LoadFailed(c)
       \/ /\ portfolios' = portfolios \cup {Cardinality(portfolios) + 1}
          /\ call' = [call EXCEPT ![c].portfolioId = Cardinality(portfolios) + 1]
          /\ Goto(c, "load.assets")
          /\ UNCHANGED <<portfolioData, portfolio_assets, historicalData, added, adds>>
          /\ UNCHANGED otherVars

\* The select on portfolio_assets answers with no row: the empty portfolio
\* is published.
LoadAssetsEmpty(c) ==
    /\ RowsOfPortfolio(call[c].portfolioId) = {}
    /\ portfolioData' = [portfolioData EXCEPT
                            !.assets = {}, !.totalValue = 0, !.totalChange = 0,
                            !.changePercent = Int2Num(0), !.isLoading = FALSE]
    /\ historicalData' = 0
    /\ Finish(c)
    /\ UNCHANGED <<portfolios, portfolio_assets, added, adds>>
    /\ UNCHANGED otherVars

\* The select on portfolio_assets answers.
LoadAssetsAnswer(c) ==
    /\ pc[c] = "load.assets"
    /\ \/ LoadFailed(c)
       \/ /\ RowsOfPortfolio(call[c].portfolioId) # {}
          /\ call' = [call EXCEPT ![c].dbAssets = RowsOfPortfolio(call[c].portfolioId),
                                  ![c].withPortfolioId = TRUE]
          /\ Goto(c, "update.fetch")
          /\ UNCHANGED <<portfolioData, portfolios, portfolio_assets,
                         historicalData, added, adds>>
          /\ UNCHANGED otherVars
       \/ LoadAssetsEmpty(c)

\* The periodic refresh (setInterval, 5 minutes) and the exported
\* updateLivePrices: updateAssetsWithLivePrices(portfolioData.assets).
StartUpdateLivePrices(c) ==
    /\ hook = "supabase"
    /\ FreeSlot(c)
    /\ user
    /\ portfolioData.assets # {}
    /\ call' = [call EXCEPT ![c].dbAssets = {AssetAsRow(a) : a \in portfolioData.assets},
                            ![c].withPortfolioId = FALSE]
    /\ Goto(c, "update.fetch")
    /\ UNCHANGED <<portfolioData, portfolios, portfolio_assets, historicalData, added, adds>>
    /\ UNCHANGED otherVars

PublishLive(c) ==
    /\ portfolioData' = LivePortfolioData(call[c].dbAssets, market)
    /\ historicalData' = generateHistoricalData(portfolioData'.assets)
    /\ Finish(c)

\* getLivePrices resolves: the loop runs up to its first awaited update,
\* or to the end when no row is written back.
LivePricesResolved(c) ==
    /\ pc[c] = "update.fetch"
    /\ LET writes == WriteOrder(call[c].dbAssets, market, call[c].withPortfolioId, 1)
       IN  IF writes = <<>>
           THEN PublishLive(c)
           ELSE /\ call' = [call EXCEPT ![c].todo = writes]
                /\ Goto(c, "update.write")
                /\ UNCHANGED <<portfolioData, historicalData>>
    /\ UNCHANGED <<portfolios, portfolio_assets, added, adds>>
    /\ UNCHANGED otherVars

\* getLivePrices rejects: the catch block publishes the stored data.
LivePricesRejected(c) ==
    /\ pc[c] = "update.fetch"
    /\ portfolioData' = FallbackPortfolioData(call[c].dbAssets)
    /\ historicalData' = generateHistoricalData(portfolioData'.assets)
    /\ Finish(c)
    /\ UNCHANGED <<portfolios, portfolio_assets, added, adds>>
    /\ UNCHANGED otherVars

\* One awaited update of current_price and total_value, by row id.
WriteBack(row, asset, livePrices) ==
    [row EXCEPT !.current_price = LiveCurrentPrice(asset, livePrices),
                !.total_value = asset.quantity * LiveCurrentPrice(asset, livePrices)]

UpdateWriteBack(c) ==
    /\ pc[c] = "update.write"
    /\ call[c].todo # <<>>
    /\ LET asset == CHOOSE a \in call[c].dbAssets : a.id = Head(call[c].todo)
       IN  portfolio_assets' =
               {IF r.id = asset.id THEN WriteBack(r, asset, market) ELSE r :
                    r \in portfolio_assets}
    /\ call' = [call EXCEPT ![c].todo = Tail(call[c].todo)]
    /\ UNCHANGED <<pc, portfolioData, portfolios, historicalData, added, adds>>
    /\ UNCHANGED otherVars

\* The last awaited update has answered: the loop ends and publishes.
UpdatePublish(c) ==
    /\ pc[c] = "update.write"
    /\ call[c].todo = <<>>
    /\ PublishLive(c)
    /\ UNCHANGED <<portfolios, portfolio_assets, added, adds>>
    /\ UNCHANGED otherVars

\* addAsset up to its first await.
StartAddAsset(c, symbols) ==
    /\ hook = "supabase"
    /\ FreeSlot(c)
    /\ user
    /\ adds < MaxAdds
    /\ adds' = adds + 1
    /\ \E sym \in symbols, q \in AddQuantities, p \in Prices :
          call' = [call EXCEPT ![c].args =
                      [symbol |-> sym, quantity |-> q, currentPrice |-> p]]
    /\ Goto(c, "add.portfolios")
    /\ UNCHANGED <<portfolioData, portfolios, portfolio_assets, historicalData, added>>
    /\ UNCHANGED otherVars

\* The catch block of addAsset: an error toast, nothing else.
AddFailed(c) ==
    /\ Finish(c)
    /\ UNCHANGED <<portfolioData, portfolios, portfolio_assets, historicalData, added, adds>>
    /\ UNCHANGED otherVars

AddPortfoliosAnswer(c) ==
    /\ pc[c] = "add.portfolios"
    /\ \/ AddFailed(c)
       \/ /\ \E pid \in portfolios :
                call' = [call EXCEPT ![c].portfolioId = pid]
          /\ Goto(c, "add.check")
          /\ UNCHANGED <<portfolioData, portfolios, portfolio_assets,
                         historicalData, added, adds>>
          /\ UNCHANGED otherVars

ExistingAsset(pid, sym) ==
    {r \in portfolio_assets : r.portfolio_id = pid /\ r.symbol = toUpperCase(sym)}

\* The select of the existing asset answers: the row, or none (PGRST116).
AddCheckAnswer(c) ==
    /\ pc[c] = "add.check"
    /\ \/ AddFailed(c)
       \/ /\ call' = [call EXCEPT ![c].dbAssets =
                         ExistingAsset(call[c].portfolioId, call[c].args.symbol)]
          /\ Goto(c, IF ExistingAsset(call[c].portfolioId, call[c].args.symbol) # {}
                     THEN "add.update" ELSE "add.insert")
          /\ UNCHANGED <<portfolioData, portfolios, portfolio_assets,
                         historicalData, added, adds>>
          /\ UNCHANGED otherVars

\* "Asset Updated" / "Asset Added" toast, then await loadPortfolio().
AddSucceeded(c, id) ==
    /\ added' = [added EXCEPT ![id] = @ + call[c].args.quantity]
    /\ call' = [call EXCEPT ![c].dbAssets = {}]
    /\ BeginLoad(c)

\* The update of the existing row answers.
AddUpdateAnswer(c) ==
    /\ pc[c] = "add.update"
    /\ \/ AddFailed(c)
       \/ LET existingAsset == CHOOSE r \in call[c].dbAssets : TRUE
              newQuantity == existingAsset.quantity + call[c].args.quantity
          IN  /\ portfolio_assets' =
                     {IF r.id = existingAsset.id
                      THEN [r EXCEPT !.quantity = newQuantity,
                                     !.current_price = call[c].args.currentPrice,
                                     !.total_value = newQuantity * call[c].args.currentPrice]
                      ELSE r : r \in portfolio_assets}
              /\ AddSucceeded(c, existingAsset.id)
              /\ UNCHANGED <<portfolios, historicalData, adds>>
              /\ UNCHANGED otherVars

\* The insert of the new row answers; UNIQUE(portfolio_id, symbol) rejects
\* a second row of the same symbol.
AddInsertAnswer(c) ==
    /\ pc[c] = "add.insert"
    /\ \/ AddFailed(c)
       \/ /\ ExistingAsset(call[c].portfolioId, call[c].args.symbol) = {}
          /\ portfolio_assets' = portfolio_assets \cup
                {DbRow(call[c].portfolioId, toUpperCase(call[c].args.symbol),
                       call[c].args.quantity, call[c].args.currentPrice,
                       call[c].args.currentPrice,
                       call[c].args.quantity * call[c].args.currentPrice)}
          /\ AddSucceeded(c, RowId(call[c].portfolioId, toUpperCase(call[c].args.symbol)))
          /\ UNCHANGED <<portfolios, historicalData, adds>>
          /\ UNCHANGED otherVars

(***************************************************************************)
(* Specification of the portfolio hooks.                                   *)
(***************************************************************************)
(***************************************************************************)
(* usePortfolioData: the hook that keeps the holdings in localStorage.     *)
(* Its CryptoAsset has no purchase_price field.                            *)
(***************************************************************************)
\* cryptoAPI.mapSymbolToId on the symbols in use.
mapSymbolToId(symbol) ==
    IF toUpperCase(symbol) = "BTC" THEN "bitcoin"
    ELSE IF toUpperCase(symbol) = "ETH" THEN "ethereum"
    ELSE toLowerCase(symbol)

\* marketData.find(data => data.id === coinId); price 0: not found.
MarketDataOf(marketData, coinId) ==
    IF coinId = "bitcoin" THEN marketData["btc"]
    ELSE IF coinId = "ethereum" THEN marketData["eth"]
    ELSE NoQuote

localUpdatedAsset(asset, marketData) ==
    LET liveData == MarketDataOf(marketData, mapSymbolToId(asset.symbol))
    IN  IF liveData.price # 0
        THEN [asset EXCEPT !.currentPrice = liveData.price,
                           !.priceChange24h = liveData.change_24h,
                           !.totalValue = asset.quantity * liveData.price]
        ELSE asset

\* The sum of (priceChange24h / 100) * totalValue; exact, every price
\* being a multiple of 100.
RECURSIVE SumDayChange(_)
SumDayChange(S) ==
    IF S = {} THEN 0
    ELSE LET a == CHOOSE x \in S : TRUE
         IN  (a.priceChange24h * a.totalValue) \div 100 + SumDayChange(S \ {a})

LocalPortfolioData(assets, marketData) ==
    LET updatedAssets == {localUpdatedAsset(asset, marketData) : asset \in assets}
        totalValue == SumTotalValue(updatedAssets)
        totalChange == SumDayChange(updatedAssets)
    IN  [assets |-> updatedAssets, totalValue |-> totalValue,
         totalChange |-> totalChange,
         changePercent |-> changePercent(totalValue, totalChange),
         isLoading |-> FALSE, error |-> NullError]

\* The effect on portfolioData.assets: generateHistoricalData(assets, 30)
\* when the new list is not empty.
LocalHistoricalData(assets) == IF assets # {} THEN HistoricalPoints ELSE historicalData

localVarsUnchanged ==
    UNCHANGED <<prices, period, rsi, ind, analysis, fn, fnArgs, fnResult, aiService, cache, now, fetches,
                hook, user, market, portfolios, portfolio_assets, added>>

\* updateLivePrices(assets) up to its await.
LocalBeginUpdate(c, assets, shown) ==
    IF assets = {}
    THEN /\ portfolioData' = [portfolioData EXCEPT !.assets = shown]
         /\ Finish(c)
    ELSE /\ portfolioData' = [portfolioData EXCEPT !.assets = shown,
                                 !.isLoading = TRUE, !.error = NullError]
         /\ call' = [call EXCEPT ![c].dbAssets = assets]
         /\ Goto(c, "local.fetch")

\* The mount effect and refreshData: loadPortfolio(), then
\* updateLivePrices of what it returned.
LocalRefreshData(c) ==
    /\ hook = "local"
    /\ FreeSlot(c)
    /\ LocalBeginUpdate(c, cryptoAssets, cryptoAssets)
    /\ historicalData' = LocalHistoricalData(cryptoAssets)
    /\ UNCHANGED <<cryptoAssets, adds>>
    /\ localVarsUnchanged

\* The periodic refresh and the exported updateLivePrices.
LocalUpdateLivePrices(c) ==
    /\ hook = "local"
    /\ FreeSlot(c)
    /\ portfolioData.assets # {}
    /\ LocalBeginUpdate(c, portfolioData.assets, portfolioData.assets)
    /\ UNCHANGED <<historicalData, cryptoAssets, adds>>
    /\ localVarsUnchanged

\* getMarketData resolves: the totals are published and the list saved.
LocalMarketDataResolved(c) ==
    /\ pc[c] = "local.fetch"
    /\ portfolioData' = LocalPortfolioData(call[c].dbAssets, market)
    /\ cryptoAssets' = portfolioData'.assets
    /\ historicalData' = LocalHistoricalData(portfolioData'.assets)
    /\ Finish(c)
    /\ UNCHANGED adds
    /\ localVarsUnchanged

\* getMarketData rejects: the catch block.
LocalMarketDataRejected(c) ==
    /\ pc[c] = "local.fetch"
    /\ portfolioData' = [portfolioData EXCEPT !.isLoading = FALSE, !.error = "message"]
    /\ Finish(c)
    /\ UNCHANGED <<historicalData, cryptoAssets, adds>>
    /\ localVarsUnchanged

\* addAsset up to its await of getCoinBySymbol; the list it will extend is
\* the portfolioData.assets of the render that created the callback.
LocalStartAddAsset(c, symbols) ==
    /\ hook = "local"
    /\ FreeSlot(c)
    /\ adds < MaxAdds
    /\ adds' = adds + 1
    /\ \E sym \in symbols, q \in AddQuantities :
          call' = [call EXCEPT ![c].args =
                      [symbol |-> sym, quantity |-> q, currentPrice |-> 0],
                   ![c].dbAssets = portfolioData.assets]
    /\ Goto(c, "local.coin")
    /\ UNCHANGED <<portfolioData, historicalData, cryptoAssets>>
    /\ localVarsUnchanged

\* getCoinBySymbol answers: null (the request failed or found no coin) makes
\* addAsset throw; a coin makes it call updateLivePrices([...assets, asset]).
LocalCoinAnswer(c) ==
    /\ pc[c] = "local.coin"
    /\ \/ /\ Finish(c)
          /\ UNCHANGED <<portfolioData, historicalData, cryptoAssets, adds>>
          /\ localVarsUnchanged
       \/ LET marketData == MarketDataOf(market, mapSymbolToId(call[c].args.symbol))
              asset == [id |-> <<adds, call[c].args.symbol>>,
                        symbol |-> call[c].args.symbol,
                        quantity |-> call[c].args.quantity,
                        currentPrice |-> marketData.price,
                        priceChange24h |-> marketData.change_24h,
                        totalValue |-> call[c].args.quantity * marketData.price,
                        addedDate |-> TRUE,
                        purchase_price |-> 0]
          IN  /\ marketData.price # 0
              /\ portfolioData' = [portfolioData EXCEPT !.isLoading = TRUE,
                                                        !.error = NullError]
              /\ call' = [call EXCEPT ![c].dbAssets = call[c].dbAssets \cup {asset}]
              /\ Goto(c, "local.fetch")
              /\ UNCHANGED <<historicalData, cryptoAssets, adds>>
              /\ localVarsUnchanged

\* removeAsset: the list is filtered and saved; the totals are left alone.
LocalRemoveAsset(c) ==
    /\ hook = "local"
    /\ FreeSlot(c)
    /\ \E asset \in portfolioData.assets :
          /\ portfolioData' = [portfolioData EXCEPT !.assets = @ \ {asset}]
          /\ cryptoAssets' = portfolioData.assets \ {asset}
          /\ historicalData' = LocalHistoricalData(portfolioData.assets \ {asset})
    /\ UNCHANGED <<pc, call, adds>>
    /\ localVarsUnchanged

LocalStep(c, symbols) ==
    \/ LocalRefreshData(c)
    \/ LocalUpdateLivePrices(c)
    \/ LocalMarketDataResolved(c)
    \/ LocalMarketDataRejected(c)
    \/ LocalStartAddAsset(c, symbols)
    \/ LocalCoinAnswer(c)
    \/ LocalRemoveAsset(c)

\* What an earlier session left in the store: nothing (a new user), or the
\* default portfolio with the one row that addAsset({BTC, 1, 100}) inserts.
EarlierRow == DbRow(1, "BTC", 1, 100, 100, 100)
InitialStores ==
    {[portfolios |-> {}, portfolio_assets |-> {}],
     [portfolios |-> {1}, portfolio_assets |-> {EarlierRow}]}

\* The page has mounted a hook for a signed-in user; the provider serves
\* quotes for the symbols of tradedSymbols only.
InitPortfolio(hooks, tradedSymbols) ==
    /\ prices = <<>>
    /\ period = DefaultPeriod
    /\ rsi = NotRun
    /\ ind = NoIndicators
    /\ analysis = NotRun
    /\ NoCall
    /\ hook \in hooks
    /\ user = TRUE
    /\ market \in {m \in Markets :
                     \A s \in Symbols \ tradedSymbols : m[toLowerCase(s)] = NoQuote}
    /\ \E store \in InitialStores :
          /\ portfolios = store.portfolios
          /\ portfolio_assets = store.portfolio_assets
          /\ added = [id \in PortfolioIds \X Symbols |->
                         IF \E r \in store.portfolio_assets : r.id = id
                         THEN (CHOOSE r \in store.portfolio_assets : r.id = id).quantity
                         ELSE 0]
    /\ portfolioData = InitialPortfolioData
    /\ historicalData = 0
    /\ cryptoAssets = {}
    /\ pc = [c \in Calls |-> "idle"]
    /\ call = [c \in Calls |-> IdleCall]
    /\ adds = 0

Step(c, symbols) ==
    \/ StartLoadPortfolio(c)
    \/ LoadPortfoliosAnswer(c)
    \/ LoadInsertAnswer(c)
    \/ LoadAssetsAnswer(c)
    \/ StartUpdateLivePrices(c)
    \/ LivePricesResolved(c)
    \/ LivePricesRejected(c)
    \/ UpdateWriteBack(c)
    \/ UpdatePublish(c)
    \/ StartAddAsset(c, symbols)
    \/ AddPortfoliosAnswer(c)
    \/ AddCheckAnswer(c)
    \/ AddUpdateAnswer(c)
    \/ AddInsertAnswer(c)

\* Overlapping calls: up to NumCalls of them are in flight, on a portfolio
\* that holds the one symbol BTC.
Init == InitPortfolio({"supabase"}, {"BTC"})

Next == \E c \in Calls : Step(c, {"btc"})

Spec == Init /\ [][Next]_vars

\* One call at a time (each handler runs to completion before the next),
\* on a portfolio of up to two symbols, under either hook.
InitSequential == InitPortfolio({"supabase", "local"}, Symbols)

NextSequential == Step(1, ArgSymbols) \/ LocalStep(1, ArgSymbols)

SpecSequential == InitSequential /\ [][NextSequential]_vars

(***************************************************************************)
(* Specification of calculateRSI over bounded inputs.                      *)
(***************************************************************************)
InitRSI ==
    /\ \E in \in SeriesInputs : prices = in[1] /\ period = in[2]
    /\ rsi = NotRun
    /\ ind = NoIndicators
    /\ analysis = NotRun
    /\ NoCall
    /\ PortfolioUnmounted

CalculateRSI ==
    /\ rsi = NotRun
    /\ rsi' = calculateRSI(prices, period)
    /\ UNCHANGED <<prices, period, ind, analysis, fn, fnArgs, fnResult, aiService, cache, now, fetches>>
    /\ UNCHANGED pfVars

NextRSI == CalculateRSI

SpecRSI == InitRSI /\ [][NextRSI]_vars

(***************************************************************************)
(* Specification of the signal aggregation over bounded indicator values.  *)
(***************************************************************************)
InitSignal ==
    /\ prices = <<>>
    /\ period = DefaultPeriod
    /\ rsi = NotRun
    /\ ind \in IndicatorInputs
    /\ analysis = NotRun
    /\ NoCall
    /\ PortfolioUnmounted

PerformComprehensiveAnalysis ==
    /\ analysis = NotRun
    /\ analysis' = performComprehensiveAnalysis(ind)
    /\ UNCHANGED <<prices, period, rsi, ind, fn, fnArgs, fnResult, aiService, cache, now, fetches>>
    /\ UNCHANGED pfVars

NextSignal == PerformComprehensiveAnalysis

SpecSignal == InitSignal /\ [][NextSignal]_vars

(***************************************************************************)
(* Specification of the indicator functions over bounded series: one call  *)
(* of one function.                                                        *)
(***************************************************************************)
InitLibrary(arguments) ==
    /\ prices = <<>>
    /\ period = DefaultPeriod
    /\ rsi = NotRun
    /\ ind = NoIndicators
    /\ analysis = NotRun
    /\ fn = "none"
    /\ fnArgs \in arguments
    /\ fnResult = NotRun
    /\ aiService = [apiKey |-> FALSE, provider |-> "idle"]
    /\ cache = {}
    /\ now = 0
    /\ fetches = {}
    /\ PortfolioUnmounted

\* The call returns or throws; nothing else changes.
Outcome(name, outcome) ==
    /\ fn' = name
    /\ fnResult' = outcome
    /\ UNCHANGED <<prices, period, rsi, ind, analysis, fnArgs, aiService, cache, now, fetches>>
    /\ UNCHANGED pfVars

CallCalculateRSI ==
    /\ fn = "none"
    /\ Outcome("calculateRSI", Returned(calculateRSI(fnArgs.prices, fnArgs.period)))

CallCalculateSMA ==
    /\ fn = "none"
    /\ Outcome("calculateSMA", Returned(calculateSMA(fnArgs.prices, fnArgs.period)))

CallCalculateEMA ==
    /\ fn = "none"
    /\ Outcome("calculateEMA", Returned(calculateEMA(fnArgs.prices, 1, fnArgs.period)))

CallCalculateMACD ==
    /\ fn = "none"
    /\ Outcome("calculateMACD", Returned(calculateMACD(fnArgs.prices)))

CallCalculateBollingerBands ==
    /\ fn = "none"
    /\ Outcome("calculateBollingerBands",
               Returned(calculateBollingerBands(fnArgs.prices, fnArgs.period,
                                                fnArgs.multiplier)))

CallCalculateSupportResistance ==
    /\ fn = "none"
    /\ Outcome("calculateSupportResistance",
               Returned(calculateSupportResistance(fnArgs.prices, DefaultMinTouches)))

CallDetectPatterns ==
    /\ fn = "none"
    /\ Outcome("detectPatterns", Returned(detectPatterns(fnArgs.prices)))

CallPerformComprehensiveAnalysis ==
    /\ fn = "none"
    /\ Outcome("performComprehensiveAnalysis", comprehensiveAnalysis(fnArgs.prices))

InitIndicators == InitLibrary(IndicatorArgs)

NextIndicators ==
    \/ CallCalculateRSI
    \/ CallCalculateSMA
    \/ CallCalculateEMA
    \/ CallCalculateMACD
    \/ CallCalculateBollingerBands
    \/ CallCalculateSupportResistance
    \/ CallDetectPatterns
    \/ CallPerformComprehensiveAnalysis

SpecIndicators == InitIndicators /\ [][NextIndicators]_vars

(***************************************************************************)
(* Specification of calculateFibonacciRetracement over bounded prices.     *)
(***************************************************************************)
InitFibonacci == InitLibrary(FibonacciArgs)

CallCalculateFibonacciRetracement ==
    /\ fn = "none"
    /\ Outcome("calculateFibonacciRetracement",
               Returned(calculateFibonacciRetracement(fnArgs.high, fnArgs.low,
                                                      fnArgs.unit)))

NextFibonacci == CallCalculateFibonacciRetracement

SpecFibonacci == InitFibonacci /\ [][NextFibonacci]_vars

(***************************************************************************)
(* AIService.generateInsights.  A request holds price and indicators.rsi;  *)
(* hasIndicators = FALSE is a request without an indicators object.  Key   *)
(* levels are held in hundredths of the price unit.                        *)
(***************************************************************************)
\* request.indicators?.rsi || 50: a missing rsi, NaN and 0 are falsy.
rsiOrDefault(request) ==
    IF request.hasIndicators /\ IsFinite(request.rsi) /\ request.rsi.num # 0
    THEN request.rsi
    ELSE Int2Num(50)

getMockInsight(request) ==
    LET rsiValue   == rsiOrDefault(request)
        price      == request.price
        oversold   == rsiValue.num < 30 * rsiValue.den
        overbought == rsiValue.num > 70 * rsiValue.den
        certainty  == IF oversold THEN 75 ELSE IF overbought THEN 70 ELSE 50
    IN  [type       |-> IF oversold THEN "bullish"
                        ELSE IF overbought THEN "bearish" ELSE "neutral",
         confidence |-> certainty,
         signal     |-> IF oversold THEN "Potential buying opportunity"
                        ELSE IF overbought THEN "Consider taking profits"
                        ELSE "Hold position",
         timeframe  |-> "short",
         keyLevels  |-> [support    |-> <<price * 95, price * 90>>,
                         resistance |-> <<price * 105, price * 110>>],
         riskLevel  |-> IF certainty > 70 THEN "low" ELSE "medium"]

\* {} as AIAnalysisRequest: price || 0 is 0 and there are no indicators.
EmptyRequest == [price |-> 0, hasIndicators |-> FALSE, rsi |-> NaN]

\* parseAIResponse ignores the response.
parseAIResponse == getMockInsight(EmptyRequest)

RsiReadings == {Int2Num(k) : k \in {0, 10, 29, 30, 31, 50, 69, 70, 71, 100}} \cup {NaN}

Requests ==
    [price : 0..MaxLevel, hasIndicators : {TRUE}, rsi : RsiReadings]
    \cup [price : 0..MaxLevel, hasIndicators : {FALSE}, rsi : {NaN}]

InitInsights ==
    /\ prices = <<>>
    /\ period = DefaultPeriod
    /\ rsi = NotRun
    /\ ind = NoIndicators
    /\ analysis = NotRun
    /\ fn = "none"
    /\ fnArgs \in Requests
    /\ fnResult = NotRun
    /\ aiService \in [apiKey : BOOLEAN, provider : {"idle"}]
    /\ cache = {}
    /\ now = 0
    /\ fetches = {}
    /\ PortfolioUnmounted

\* The promise of generateInsights settles.
Settle(outcome, provider) ==
    /\ fn' = "generateInsights"
    /\ fnResult' = outcome
    /\ aiService' = [aiService EXCEPT !.provider = provider]
    /\ UNCHANGED <<prices, period, rsi, ind, analysis, fnArgs, cache, now, fetches>>
    /\ UNCHANGED pfVars

\* if (!this.isAvailable()) return this.getMockInsight(request)
InsightsWithoutKey ==
    /\ fn = "none"
    /\ ~aiService.apiKey
    /\ Settle(Returned(getMockInsight(fnArgs)), "idle")

\* buildAnalysisPrompt reads indicators.rsi of a request without indicators:
\* the TypeError is caught at line 390.
InsightsPromptThrows ==
    /\ fn = "none"
    /\ aiService.apiKey
    /\ ~fnArgs.hasIndicators
    /\ Settle(Returned(getMockInsight(fnArgs)), "idle")

\* await this.callAIAPI(prompt)
InsightsCallProvider ==
    /\ fn = "none"
    /\ aiService.apiKey
    /\ fnArgs.hasIndicators
    /\ Settle(NotRun, "called")

\* The provider call resolves: return this.parseAIResponse(response)
ProviderResolved ==
    /\ aiService.provider = "called"
    /\ Settle(Returned(parseAIResponse), "resolved")

\* The provider call fails: the catch block returns getMockInsight(request).
ProviderRejected ==
    /\ aiService.provider = "called"
    /\ Settle(Returned(getMockInsight(fnArgs)), "rejected")

NextInsights ==
    \/ InsightsWithoutKey
    \/ InsightsPromptThrows
    \/ InsightsCallProvider
    \/ ProviderResolved
    \/ ProviderRejected

SpecInsights == InitInsights /\ [][NextInsights]_vars

(***************************************************************************)
(* useSupabasePortfolio.generateHistoricalData: the points it publishes.   *)
(* assets is the array it is given; a value is held in units of            *)
(* 1 / ValueUnit of the price unit, a date as the day relative to today.   *)
(***************************************************************************)
ValueUnit == 100000

\* Math.sin((daysBack / 30) * Math.PI * 2) * 0.1 in units of 1 / ValueUnit,
\* for daysBack = 0 .. 29 (the sine to four decimals).
Volatility ==
    <<0, 2079, 4067, 5878, 7431, 8660, 9511, 9945, 9945, 9511,
      8660, 7431, 5878, 4067, 2079, 0, -2079, -4067, -5878, -7431,
      -8660, -9511, -9945, -9945, -9511, -8660, -7431, -5878, -4067, -2079>>

\* (Math.random() - 0.5) * 0.05 lies in [-0.025, 0.025).
RandomFactors == {-2500, 0, 2499}

\* One randomFactor per day and asset: base, except r for the first asset
\* on one day.
RandomDraws ==
    {[d \in 0..(HistoricalPoints - 1) |->
         [k \in 1..2 |-> IF d = day /\ k = 1 THEN r ELSE base]] :
       base \in RandomFactors, r \in RandomFactors, day \in 0..(HistoricalPoints - 1)}

\* assets.reduce((sum, asset) => sum + asset.totalValue, 0)
RECURSIVE currentTotalValue(_)
currentTotalValue(assets) ==
    IF assets = <<>> THEN 0
    ELSE Head(assets).totalValue + currentTotalValue(Tail(assets))

\* The sum of quantity * currentPrice * priceMultiplier over the assets from
\* index k on, for daysBack = i.
RECURSIVE dailyPortfolioValue(_, _, _, _)
dailyPortfolioValue(assets, random, i, k) ==
    IF k > Len(assets) THEN 0
    ELSE assets[k].quantity * assets[k].currentPrice
             * (ValueUnit + Volatility[i + 1] + random[i][k])
         + dailyPortfolioValue(assets, random, i, k + 1)

\* data after the loop body has run for daysBack = 29 down to i.
RECURSIVE dataAfter(_, _, _)
dataAfter(assets, random, i) ==
    LET before   == IF i = HistoricalPoints - 1 THEN <<>>
                    ELSE dataAfter(assets, random, i + 1)
        value    == Max(dailyPortfolioValue(assets, random, i, 1),
                        3 * (ValueUnit \div 10) * currentTotalValue(assets))
        previous == IF i = HistoricalPoints - 1 THEN value
                    ELSE IF before[Len(before)].value # 0 THEN before[Len(before)].value
                    ELSE value
        change   == IF i = HistoricalPoints - 1 THEN Int2Num(0)
                    ELSE JSDiv((value - previous) * 100, previous)
    IN  Append(before, [date |-> -i, value |-> value, change |-> change])

\* A variant whose loop ends at daysBack = 1.
HistoricalDataUntilYesterday(assets, random) ==
    IF assets = <<>> THEN <<>> ELSE dataAfter(assets, random, 1)

\* The array passed to setHistoricalData.
historicalDataPoints(assets, random) ==
    IF assets = <<>> THEN <<>> ELSE dataAfter(assets, random, 0)

\* The assets the hook passes: totalValue = quantity * currentPrice
\* (updatedAssets and fallbackAssets alike).
HistoryAssets ==
    {[quantity |-> q, currentPrice |-> p, totalValue |-> q * p] :
        q \in 1..(MaxAddQuantity + 1), p \in 0..MaxPriceLevel}

HistoryArgs == [assets : SeqsUpTo(HistoryAssets, 2)]

\* The call passed v to a state setter.
Published(v) == [outcome |-> "published", value |-> v]

InitHistory ==
    /\ prices = <<>>
    /\ period = DefaultPeriod
    /\ rsi = NotRun
    /\ ind = NoIndicators
    /\ analysis = NotRun
    /\ fn = "none"
    /\ fnArgs \in HistoryArgs
    /\ fnResult = NotRun
    /\ aiService = [apiKey |-> FALSE, provider |-> "idle"]
    /\ cache = {}
    /\ now = 0
    /\ fetches = {}
    /\ PortfolioUnmounted

GenerateHistoricalData ==
    /\ fn = "none"
    /\ \E random \in RandomDraws :
          LET data == historicalDataPoints(fnArgs.assets, random)
          IN  /\ fnResult' = Published(data)
              /\ historicalData' = Len(data)
    /\ fn' = "generateHistoricalData"
    /\ UNCHANGED <<prices, period, rsi, ind, analysis, fnArgs, aiService, cache, now, fetches>>
    /\ UNCHANGED <<hook, user, market, portfolios, portfolio_assets, portfolioData,
                   cryptoAssets, pc, call, added, adds>>

NextHistory == GenerateHistoricalData

SpecHistory == InitHistory /\ [][NextHistory]_vars

(***************************************************************************)
(* CryptoAPI.mapSymbolToId on a symbol given character by character, so    *)
(* that toUpperCase and toLowerCase act on the letters.                    *)
(***************************************************************************)
LowerLetters == <<"b", "c", "e", "h", "t">>
UpperLetters == <<"B", "C", "E", "H", "T">>
SymbolCharacters == {LowerLetters[i] : i \in 1..5} \cup {UpperLetters[i] : i \in 1..5} \cup {"1"}

upperCharacter(c) ==
    IF \E i \in 1..5 : LowerLetters[i] = c
    THEN UpperLetters[CHOOSE i \in 1..5 : LowerLetters[i] = c]
    ELSE c

lowerCharacter(c) ==
    IF \E i \in 1..5 : UpperLetters[i] = c
    THEN LowerLetters[CHOOSE i \in 1..5 : UpperLetters[i] = c]
    ELSE c

\* The string of a sequence of characters.
RECURSIVE StringOf(_)
StringOf(chars) == IF chars = <<>> THEN "" ELSE Head(chars) \o StringOf(Tail(chars))

\* symbol.toUpperCase() and symbol.toLowerCase()
upperCaseString(chars) == StringOf([i \in 1..Len(chars) |-> upperCharacter(chars[i])])
lowerCaseString(chars) == StringOf([i \in 1..Len(chars) |-> lowerCharacter(chars[i])])

symbolMap ==
    {<<"BTC", "bitcoin">>, <<"ETH", "ethereum">>, <<"BNB", "binancecoin">>,
     <<"XRP", "ripple">>, <<"ADA", "cardano">>, <<"SOL", "solana">>,
     <<"DOT", "polkadot">>, <<"AVAX", "avalanche-2">>, <<"MATIC", "polygon">>,
     <<"DOGE", "dogecoin">>, <<"SHIB", "shiba-inu">>, <<"LTC", "litecoin">>,
     <<"TRX", "tron">>, <<"UNI", "uniswap">>, <<"LINK", "chainlink">>,
     <<"ATOM", "cosmos">>, <<"ETC", "ethereum-classic">>, <<"XLM", "stellar">>,
     <<"BCH", "bitcoin-cash">>, <<"NEAR", "near">>, <<"APT", "aptos">>,
     <<"FIL", "filecoin">>, <<"VET", "vechain">>, <<"IMX", "immutable-x">>,
     <<"HBAR", "hedera-hashgraph">>, <<"QNT", "quant-network">>,
     <<"ALGO", "algorand">>, <<"MANA", "decentraland">>, <<"SAND", "the-sandbox">>}

\* A variant that looks the symbol up as it was typed.
MapSymbolAsTyped(chars) ==
    IF \E entry \in symbolMap : entry[1] = StringOf(chars)
    THEN (CHOOSE entry \in symbolMap : entry[1] = StringOf(chars))[2]
    ELSE lowerCaseString(chars)

\* symbolMap[symbol.toUpperCase()] || symbol.toLowerCase()
mapSymbolCharacters(chars) ==
    IF \E entry \in symbolMap : entry[1] = upperCaseString(chars)
    THEN (CHOOSE entry \in symbolMap : entry[1] = upperCaseString(chars))[2]
    ELSE lowerCaseString(chars)

SymbolArgs == [symbol : SeqsUpTo(SymbolCharacters, MaxSymbolLen)]

InitSymbols == InitLibrary(SymbolArgs)

CallMapSymbolToId ==
    /\ fn = "none"
    /\ Outcome("mapSymbolToId", Returned(mapSymbolCharacters(fnArgs.symbol)))

NextSymbols == CallMapSymbolToId

SpecSymbols == InitSymbols /\ [][NextSymbols]_vars

(***************************************************************************)
(* Specification of calculateSupportResistance over series of prices that  *)
(* lie within 1% of each other, with minTouches given by the caller.       *)
(***************************************************************************)
ClosePrices == {200, 201}

TouchArgs == [prices : SeqsUpTo(ClosePrices, MaxTouchSeriesLen), minTouches : 1..MaxTouches]

InitTouches == InitLibrary(TouchArgs)

CallSupportResistanceWithTouches ==
    /\ fn = "none"
    /\ Outcome("calculateSupportResistance",
               Returned(calculateSupportResistance(fnArgs.prices, fnArgs.minTouches)))

NextTouches == CallSupportResistanceWithTouches

SpecTouches == InitTouches /\ [][NextTouches]_vars

(***************************************************************************)
(* Specification of detectPatterns over series of 19 to 31 prices: a head  *)
(* between two shoulder levels, and a flat series with up to three spikes. *)
(***************************************************************************)
\* The level l before position at, the head h at it, the level r after it.
Shouldered(len, at, l, h, r) ==
    [i \in 1..len |-> IF i < at THEN l ELSE IF i = at THEN h ELSE r]

ShoulderLevels == {100, 104, 105}
HeadLevels == {100, 110}

\* The positions where a spike may stand: next to either end, and inside.
SpikePositions(len) == {2, 3, 10, 20, len - 2, len - 1}
SpikeSizes == {-4, -2, -1, 1, 2, 4}
MaxSpikes == 3

\* The level 100 with the spike spikes[i] added at each position i of at.
Spiked(len, at, spikes) ==
    [i \in 1..len |-> IF i \in at THEN 100 + spikes[i] ELSE 100]

\* One series is given: a head of either level at any place between two
\* shoulder levels, or up to MaxSpikes spikes on a flat series.
InitPatterns ==
    \/ \E len \in {19, 20, 21}, at \in 1..21, l \in ShoulderLevels,
           h \in HeadLevels, r \in ShoulderLevels :
          InitLibrary({[prices |-> Shouldered(len, at, l, h, r)]})
    \/ \E len \in {29, 30, 31} :
          \E at \in {S \in SUBSET SpikePositions(len) : Cardinality(S) <= MaxSpikes} :
             \E spikes \in [at -> SpikeSizes] :
                InitLibrary({[prices |-> Spiked(len, at, spikes)]})

NextPatterns == CallDetectPatterns

SpecPatterns == InitPatterns /\ [][NextPatterns]_vars

(***************************************************************************)
(* Specification of a session: the user signs out and in again while       *)
(* loadPortfolio and updateAssetsWithLivePrices calls are in flight.  The  *)
(* user adds no asset.                                                     *)
(***************************************************************************)
\* AuthProvider.signOut succeeded, or the auth listener reported
\* SIGNED_OUT: setUser(null), and the effect on [user, currency] clears
\* the published portfolio.  The calls in flight are not cancelled.
SignOut ==
    /\ hook = "supabase"
    /\ user
    /\ user' = FALSE
    /\ portfolioData' = EmptyPortfolioData
    /\ historicalData' = 0
    /\ UNCHANGED <<hook, market, portfolios, portfolio_assets, cryptoAssets,
                   pc, call, added, adds>>
    /\ UNCHANGED taVars

\* The auth listener reported a session: setUser(user), and the effect on
\* [user, currency] calls loadPortfolio.
SignIn(c) ==
    /\ hook = "supabase"
    /\ ~user
    /\ FreeSlot(c)
    /\ user' = TRUE
    /\ BeginLoad(c)
    /\ UNCHANGED <<hook, market, portfolios, portfolio_assets, historicalData,
                   cryptoAssets, call, added, adds>>
    /\ UNCHANGED taVars

\* A second holding, never priced: its stored current_price is 0.
SecondRow == DbRow(1, "ETH", 2, 100, 0, 0)
SessionStores ==
    InitialStores \cup {[portfolios |-> {1}, portfolio_assets |-> {EarlierRow, SecondRow}]}

InitSession ==
    /\ prices = <<>>
    /\ period = DefaultPeriod
    /\ rsi = NotRun
    /\ ind = NoIndicators
    /\ analysis = NotRun
    /\ NoCall
    /\ hook = "supabase"
    /\ user = TRUE
    /\ market \in Markets
    /\ \E store \in SessionStores :
          /\ portfolios = store.portfolios
          /\ portfolio_assets = store.portfolio_assets
          /\ added = [id \in PortfolioIds \X Symbols |->
                         IF \E r \in store.portfolio_assets : r.id = id
                         THEN (CHOOSE r \in store.portfolio_assets : r.id = id).quantity
                         ELSE 0]
    /\ portfolioData = InitialPortfolioData
    /\ historicalData = 0
    /\ cryptoAssets = {}
    /\ pc = [c \in Calls |-> "idle"]
    /\ call = [c \in Calls |-> IdleCall]
    /\ adds = 0

\* The part of a call in flight that runs when its awaited call settles.
Continue(c) ==
    \/ LoadPortfoliosAnswer(c)
    \/ LoadInsertAnswer(c)
    \/ LoadAssetsAnswer(c)
    \/ LivePricesResolved(c)
    \/ LivePricesRejected(c)
    \/ UpdateWriteBack(c)
    \/ UpdatePublish(c)

SessionStep(c) ==
    \/ StartLoadPortfolio(c)
    \/ StartUpdateLivePrices(c)
    \/ SignIn(c)
    \/ Continue(c)

\* Two calls may be in flight together.
LoadCalls == {c \in Calls : c <= 2}

NextSession == SignOut \/ \E c \in LoadCalls : SessionStep(c)

SpecSession == InitSession /\ [][NextSession]_vars

(***************************************************************************)
(* Specification of the loads and refreshes of one signed-in session, in   *)
(* which every awaited call eventually resolves or rejects.                *)
(***************************************************************************)
\* The provider quotes BTC only, with one day change.
InitLoad ==
    /\ InitSession
    /\ market["eth"] = NoQuote
    /\ market["btc"].change_24h \in {0, 5}

LoadStep(c) ==
    \/ StartLoadPortfolio(c)
    \/ StartUpdateLivePrices(c)
    \/ Continue(c)

NextLoad == \E c \in LoadCalls : LoadStep(c)

SpecLoadFair ==
    /\ InitLoad
    /\ [][NextLoad]_vars
    /\ \A c \in LoadCalls : WF_vars(Continue(c))

(***************************************************************************)
(* CryptoAPI.fetchWithCache.  A call is suspended at await fetch(...) and  *)
(* then at await response.json(); other calls and the clock run while it   *)
(* is.  The data of a response names its URL and the time it was served.   *)
(***************************************************************************)
cacheTimeout == 60000
TickMs == cacheTimeout \div 2
Urls == {"/search/trending", "/simple/supported_vs_currencies"}

\* this.cache.get(url): the entry of url, if any.
cached(url) == {e \in cache : e.url = url}

\* A variant that still serves an entry of exactly cacheTimeout.
FreshEntriesInclusive(url) == {e \in cached(url) : now - e.timestamp <= cacheTimeout}

\* cached && Date.now() - cached.timestamp < this.cacheTimeout
FreshEntries(url) == {e \in cached(url) : now - e.timestamp < cacheTimeout}

\* Two calls may be suspended together.
FetchCalls == {c \in Calls : c <= 2}

Suspended(c) == \E f \in fetches : f.id = c
FetchOf(c) == CHOOSE f \in fetches : f.id = c

\* The promise of a call made at time at settles.
FetchSettles(url, at, outcome) ==
    /\ fn' = "fetchWithCache"
    /\ fnArgs' = [url |-> url, at |-> at]
    /\ fnResult' = outcome
    /\ UNCHANGED <<prices, period, rsi, ind, analysis, aiService>>
    /\ UNCHANGED pfVars

fetchUnchanged ==
    /\ UNCHANGED <<prices, period, rsi, ind, analysis, fn, fnArgs, fnResult, aiService>>
    /\ UNCHANGED pfVars

\* The entry is fresh: return cached.data.
ServeCached(url) ==
    /\ FreshEntries(url) # {}
    /\ FetchSettles(url, now, Returned((CHOOSE e \in FreshEntries(url) : TRUE).data))
    /\ UNCHANGED <<cache, now, fetches>>

\* No fresh entry: the call runs up to await fetch(baseUrl + url).
StartFetch(c, url) ==
    /\ ~Suspended(c)
    /\ \A d \in FetchCalls : d < c => Suspended(d)
    /\ FreshEntries(url) = {}
    /\ fetches' = fetches \cup {[id |-> c, url |-> url, at |-> now, stage |-> "fetch",
                                 data |-> NotRun]}
    /\ UNCHANGED <<cache, now>>
    /\ fetchUnchanged

\* fetch resolves with response.ok: the call runs up to await response.json().
ResponseOk(c) ==
    /\ Suspended(c)
    /\ FetchOf(c).stage = "fetch"
    /\ fetches' = (fetches \ {FetchOf(c)})
                  \cup {[FetchOf(c) EXCEPT !.stage = "json",
                                           !.data = [url |-> FetchOf(c).url, asOf |-> now]]}
    /\ UNCHANGED <<cache, now>>
    /\ fetchUnchanged

\* The catch block: the error is logged and thrown again.
Rethrow(c, error) ==
    /\ fetches' = fetches \ {FetchOf(c)}
    /\ FetchSettles(FetchOf(c).url, FetchOf(c).at, Threw(error))
    /\ UNCHANGED <<cache, now>>

\* fetch resolves with a response that is not ok.
ResponseNotOk(c) ==
    /\ Suspended(c)
    /\ FetchOf(c).stage = "fetch"
    /\ Rethrow(c, [name |-> "Error", message |-> "API request failed"])

\* fetch rejects.
FetchRejected(c) ==
    /\ Suspended(c)
    /\ FetchOf(c).stage = "fetch"
    /\ Rethrow(c, [name |-> "TypeError", message |-> "Failed to fetch"])

\* response.json() resolves: the data is stored with Date.now() and returned.
JsonResolved(c) ==
    /\ Suspended(c)
    /\ FetchOf(c).stage = "json"
    /\ cache' = (cache \ cached(FetchOf(c).url))
                \cup {[url |-> FetchOf(c).url, data |-> FetchOf(c).data, timestamp |-> now]}
    /\ fetches' = fetches \ {FetchOf(c)}
    /\ FetchSettles(FetchOf(c).url, FetchOf(c).at, Returned(FetchOf(c).data))
    /\ UNCHANGED now

\* response.json() rejects.
JsonRejected(c) ==
    /\ Suspended(c)
    /\ FetchOf(c).stage = "json"
    /\ Rethrow(c, [name |-> "SyntaxError", message |-> "Unexpected token"])

\* Time passes.
Tick ==
    /\ now < MaxTicks * TickMs
    /\ now' = now + TickMs
    /\ UNCHANGED <<cache, fetches>>
    /\ fetchUnchanged

InitCache ==
    /\ prices = <<>>
    /\ period = DefaultPeriod
    /\ rsi = NotRun
    /\ ind = NoIndicators
    /\ analysis = NotRun
    /\ NoCall
    /\ PortfolioUnmounted

NextCache ==
    \/ Tick
    \/ \E url \in Urls : ServeCached(url)
    \/ \E c \in FetchCalls, url \in Urls : StartFetch(c, url)
    \/ \E c \in FetchCalls : ResponseOk(c)
    \/ \E c \in FetchCalls : ResponseNotOk(c)
    \/ \E c \in FetchCalls : FetchRejected(c)
    \/ \E c \in FetchCalls : JsonResolved(c)
    \/ \E c \in FetchCalls : JsonRejected(c)

SpecCache == InitCache /\ [][NextCache]_vars

(***************************************************************************)
(* C1.  For every series with len >= period + 1, the value returned by     *)
(* calculateRSI is a number within [0, 100], never NaN or Infinity.        *)
(***************************************************************************)
C1_RSIWithinRange ==
    (rsi # NotRun /\ Len(prices) >= period + 1)
        => /\ IsFinite(rsi.value)
           /\ 0 <= rsi.value.num
           /\ rsi.value.num <= 100 * rsi.value.den

(***************************************************************************)
(* C2.  Whenever the smoothed average loss is 0, calculateRSI returns      *)
(* exactly 100 and not NaN; prices 1..20 with period 14 give 100.          *)
(***************************************************************************)
C2_ZeroLossGives100 ==
    (rsi # NotRun /\ Len(prices) >= period + 1)
        => /\ (avgLoss(prices, period, Len(prices) - 1).num = 0 => rsi.value = Int2Num(100))
           /\ ((prices = RisingSeries /\ period = DefaultPeriod) => rsi.value = Int2Num(100))

(***************************************************************************)
(* C3.  overallSignal is BULLISH if b > r, BEARISH if r > b, else NEUTRAL; *)
(* confidence is |b-r|/(b+r)*100, and 0 when b + r = 0.                    *)
(***************************************************************************)
C3_ConfidenceDefined ==
    analysis # NotRun =>
        LET b == bullishSignals(ind)
            r == bearishSignals(ind)
        IN  /\ analysis.overallSignal =
                 (IF b > r THEN "BULLISH" ELSE IF r > b THEN "BEARISH" ELSE "NEUTRAL")
            /\ analysis.confidence =
                 (IF b + r = 0 THEN Int2Num(0)
                  ELSE JSDiv(100 * Abs(b - r), b + r))

(***************************************************************************)
(* C4.  Swapping every BULLISH vote with BEARISH and every BEARISH vote    *)
(* with BULLISH flips overallSignal (NEUTRAL stays) and leaves confidence  *)
(* unchanged.                                                              *)
(***************************************************************************)
\* The indicator values that cast the opposite vote in each of the four votes.
SwapVotes(x) ==
    [rsiSignal    |-> IF x.rsiSignal = "BUY" THEN "SELL"
                      ELSE IF x.rsiSignal = "SELL" THEN "BUY" ELSE "HOLD",
     currentPrice |-> x.currentPrice,
     sma20        |-> 2 * x.currentPrice - x.sma20,
     sma50        |-> 2 * x.currentPrice - x.sma50,
     macd         |-> x.signal,
     signal       |-> x.macd]

FlipSignal(s) ==
    IF s = "BULLISH" THEN "BEARISH" ELSE IF s = "BEARISH" THEN "BULLISH" ELSE s

C4_AggregationSymmetric ==
    analysis # NotRun =>
        /\ performComprehensiveAnalysis(SwapVotes(ind)).overallSignal
             = FlipSignal(analysis.overallSignal)
        /\ performComprehensiveAnalysis(SwapVotes(ind)).confidence
             = analysis.confidence

\* A mixed vote (some bullish, some bearish, not a tie) has been aggregated.
C4_Witness ==
    /\ analysis # NotRun
    /\ bullishSignals(ind) = 3
    /\ bearishSignals(ind) = 1
    /\ analysis.overallSignal = "BULLISH"

(***************************************************************************)
(* The steps that publish a reconciliation.                                *)
(***************************************************************************)
\* updateAssetsWithLivePrices publishes on its live-price path.
LivePathPublishes(c) ==
    \/ LivePricesResolved(c) /\ pc'[c] = "idle"
    \/ UpdatePublish(c)

\* updateAssetsWithLivePrices publishes on either path.
UpdateAssetsPublishes(c) == LivePathPublishes(c) \/ LivePricesRejected(c)

\* Any reconciliation of either hook publishes.
ReconciliationPublishes(c) ==
    \/ UpdateAssetsPublishes(c)
    \/ pc[c] = "load.assets" /\ LoadAssetsEmpty(c)
    \/ LocalMarketDataResolved(c)

RECURSIVE SumQuantityTimesPrice(_)
SumQuantityTimesPrice(S) ==
    IF S = {} THEN 0
    ELSE LET a == CHOOSE x \in S : TRUE
         IN  a.quantity * a.currentPrice + SumQuantityTimesPrice(S \ {a})

C6_DayChangeTotals ==
    [][\A c \in Calls :
          ReconciliationPublishes(c) =>
              /\ portfolioData'.totalChange = SumDayChange(portfolioData'.assets)
              /\ (portfolioData'.totalValue # portfolioData'.totalChange
                    => portfolioData'.changePercent =
                           JSDiv(portfolioData'.totalChange * 100,
                                 portfolioData'.totalValue - portfolioData'.totalChange))]_vars

(***************************************************************************)
(* C7.  In every reconciliation changePercent is 0 whenever                *)
(* totalValue - totalChange = 0, and it is never Infinity or NaN.          *)
(***************************************************************************)
C7_ChangePercentGuarded ==
    [][\A c \in Calls :
          ReconciliationPublishes(c) =>
              /\ IsFinite(portfolioData'.changePercent)
              /\ (portfolioData'.totalValue - portfolioData'.totalChange = 0
                    => portfolioData'.changePercent = Int2Num(0))]_vars

(***************************************************************************)
(* C8.  updateAssetsWithLivePrices always completes with every input       *)
(* holding published, valued at quantity * (live price if available, else  *)
(* last stored price, else purchase price, else 0), with error = null and  *)
(* isLoading = false.                                                      *)
(***************************************************************************)
\* The price the holding was last stored with: current_price of a row,
\* currentPrice of a published asset.
LastStoredPrice(holding) ==
    IF holding.current_price # 0 THEN holding.current_price ELSE holding.currentPrice

ExpectedPrice(holding, livePrice) ==
    IF livePrice # 0 THEN livePrice
    ELSE IF LastStoredPrice(holding) # 0 THEN LastStoredPrice(holding)
    ELSE holding.purchase_price

HoldingsPublishedAt(holdings, livePriceOf(_)) ==
    /\ \A h \in holdings :
          \E a \in portfolioData'.assets :
             /\ a.id = h.id
             /\ a.currentPrice = ExpectedPrice(h, livePriceOf(h))
             /\ a.totalValue = h.quantity * ExpectedPrice(h, livePriceOf(h))
    /\ Cardinality(portfolioData'.assets) = Cardinality(holdings)
    /\ portfolioData'.error = NullError
    /\ ~portfolioData'.isLoading

QuotedPrice(h) == market[toLowerCase(h.symbol)].price
NoPrice(h) == 0

C8_ReconciliationTotal ==
    [][\A c \in Calls :
          /\ LivePathPublishes(c) => HoldingsPublishedAt(call[c].dbAssets, QuotedPrice)
          /\ LivePricesRejected(c) => HoldingsPublishedAt(call[c].dbAssets, NoPrice)]_vars

(***************************************************************************)
(* C9.  Under any interleaving of addAsset calls the store holds at most   *)
(* one holding per symbol and portfolio, and its quantity is the sum of    *)
(* the quantities of the addAsset calls for it that reported success.      *)
(***************************************************************************)
C9_QuantityIsSumOfAdds ==
    /\ \A r1, r2 \in portfolio_assets : r1.id = r2.id => r1 = r2
    /\ \A r \in portfolio_assets : r.quantity = added[r.id]

(***************************************************************************)
(* C10.  Reconciliations of the same stored holdings against the same      *)
(* price snapshot, in any order or overlap, publish the valuation that a   *)
(* single reconciliation (a loadPortfolio) publishes.                      *)
(***************************************************************************)
Holding(row) ==
    [id |-> row.id, quantity |-> row.quantity, purchase_price |-> row.purchase_price]

AssetValuation(a) ==
    [id |-> a.id, symbol |-> a.symbol, quantity |-> a.quantity,
     currentPrice |-> a.currentPrice, priceChange24h |-> a.priceChange24h,
     totalValue |-> a.totalValue]

Valuation(pd) ==
    [assets |-> {AssetValuation(a) : a \in pd.assets},
     totalValue |-> pd.totalValue, totalChange |-> pd.totalChange,
     changePercent |-> pd.changePercent]

\* The rows now stored for the portfolio the call reconciles.
StoredRowsFor(dbAssets) ==
    {r \in portfolio_assets : \E h \in dbAssets : h.portfolio_id = r.portfolio_id}

C10_RefreshIdempotent ==
    [][\A c \in Calls :
          (/\ LivePathPublishes(c)
           /\ {Holding(h) : h \in call[c].dbAssets}
                = {Holding(r) : r \in StoredRowsFor(call[c].dbAssets)})
          => Valuation(portfolioData')
               = Valuation(LivePortfolioData(StoredRowsFor(call[c].dbAssets), market))]_vars

(***************************************************************************)
(* C11.  After any interleaving of loadPortfolio calls of the signed-in    *)
(* user the store holds at most one portfolios row for that user.          *)
(***************************************************************************)
C11_OnePortfolioPerUser == Cardinality(portfolios) <= 1

(***************************************************************************)
(* C12.  An empty price series passed to any indicator function            *)
(* (calculateRSI, calculateSMA, calculateEMA, calculateMACD,               *)
(* calculateBollingerBands, calculateSupportResistance, detectPatterns,    *)
(* performComprehensiveAnalysis) produces the InvalidSeries error outcome: *)
(* neither a crash nor a silent 0 / neutral value.                         *)
(***************************************************************************)
C12_EmptySeriesInvalid ==
    (fn # "none" /\ fnArgs.prices = <<>>)
        => (fnResult.outcome = "threw" /\ fnResult.value = "InvalidSeries")

(***************************************************************************)
(* C13.  For every non-empty price series, of any length >= 1,             *)
(* performComprehensiveAnalysis returns a result and never throws.         *)
(***************************************************************************)
C13_CompositeTotal ==
    (fn = "performComprehensiveAnalysis" /\ Len(fnArgs.prices) >= 1)
        => fnResult.outcome = "returned"

\* The analysis of a series of one price, and of a series of 49, returned.
C13_Witness ==
    /\ fn = "performComprehensiveAnalysis"
    /\ Len(fnArgs.prices) = 49
    /\ fnResult.outcome = "returned"
    /\ fnResult.value.sma20 # 0
    /\ fnResult.value.sma50 = 0

(***************************************************************************)
(* C14.  An indicator whose length precondition is not met casts no vote,  *)
(* so a series too short for RSI (15), SMA20 (20), SMA50 (50) and          *)
(* MACD (26) yields overallSignal = NEUTRAL.                               *)
(***************************************************************************)
C14_ShortSeriesNeutral ==
    (fn = "performComprehensiveAnalysis" /\ Len(fnArgs.prices) \in 1..14)
        => fnResult.value.overallSignal = "NEUTRAL"

(***************************************************************************)
(* C15.  calculateRSI returns {50, HOLD, NEUTRAL} when                     *)
(* len(prices) < period + 1; otherwise the signal and strength it returns  *)
(* are the ones its returned value maps to: value <= 30 gives BUY (STRONG  *)
(* iff value <= 20), value >= 70 gives SELL (STRONG iff value >= 80), any  *)
(* other value gives HOLD / NEUTRAL.                                       *)
(***************************************************************************)
SignalOfValue(v) ==
    IF RsiLE(v, 30) THEN "BUY" ELSE IF RsiGE(v, 70) THEN "SELL" ELSE "HOLD"

StrengthOfValue(v) ==
    IF RsiLE(v, 30) THEN (IF RsiLE(v, 20) THEN "STRONG" ELSE "WEAK")
    ELSE IF RsiGE(v, 70) THEN (IF RsiGE(v, 80) THEN "STRONG" ELSE "WEAK")
    ELSE "NEUTRAL"

C15_RSISignalMatchesValue ==
    rsi # NotRun =>
        IF Len(prices) < period + 1
        THEN rsi = [value |-> Int2Num(50), signal |-> "HOLD", strength |-> "NEUTRAL"]
        ELSE /\ rsi.signal = SignalOfValue(rsi.value)
             /\ rsi.strength = StrengthOfValue(rsi.value)

(***************************************************************************)
(* C16.  calculateSMA(prices, n) is the arithmetic mean of the last n      *)
(* elements of prices rounded to 4 decimals when len(prices) >= n, and 0   *)
(* when len(prices) < n.                                                   *)
(***************************************************************************)
\* prices[i] + ... + prices[len]
RECURSIVE SumFrom(_, _)
SumFrom(p, i) == IF i > Len(p) THEN 0 ELSE p[i] + SumFrom(p, i + 1)

\* r / Scale is a nearest multiple of 1 / Scale to total / n.
NearestToMean(r, total, n) == 2 * Abs(r * n - Scale * total) <= n

C16_SMAIsMeanOfLast ==
    fn = "calculateSMA" =>
        IF Len(fnArgs.prices) >= fnArgs.period
        THEN NearestToMean(fnResult.value,
                           SumFrom(fnArgs.prices, Len(fnArgs.prices) - fnArgs.period + 1),
                           fnArgs.period)
        ELSE fnResult.value = 0

\* A window shorter than the series whose mean is rounded.
C16_Witness ==
    /\ fn = "calculateSMA"
    /\ Len(fnArgs.prices) > fnArgs.period
    /\ fnResult.value % Scale # 0
    /\ fnResult.value * fnArgs.period
         # Scale * SumFrom(fnArgs.prices, Len(fnArgs.prices) - fnArgs.period + 1)

C18_FibonacciLevels ==
    fn = "calculateFibonacciRetracement" =>
        LET levels == fnResult.value
            h      == fnArgs.high
            l      == fnArgs.low
            unit   == fnArgs.unit
        IN  /\ \A i \in 1..7 :
                 levels[i] * 1000 * unit = Scale * (1000 * h - (h - l) * FibonacciRatios[i])
            /\ levels[1] * unit = Scale * h
            /\ levels[7] * unit = Scale * l
            /\ h > l => \A i \in 1..6 : levels[i] > levels[i + 1]
            /\ (h = 100 /\ l = 50 /\ unit = 1)
                 => levels = <<1000000, 882000, 809000, 750000, 691000, 607000, 500000>>

(***************************************************************************)
(* C19.  aiService.generateInsights resolves, never rejects; without an    *)
(* API key or when the provider call fails it resolves to the rule-based   *)
(* fallback of the request's rsi and price: rsi < 30 bullish with          *)
(* confidence 75, rsi > 70 bearish with confidence 70, otherwise neutral   *)
(* with confidence 50, key levels at price * 0.95, 0.90, 1.05 and 1.10.    *)
(***************************************************************************)
\* The rsi of the request is below (above) a threshold.
RequestRsiBelow(request, t) ==
    request.hasIndicators /\ IsFinite(request.rsi) /\ request.rsi.num < t * request.rsi.den

RequestRsiAbove(request, t) ==
    request.hasIndicators /\ IsFinite(request.rsi) /\ request.rsi.num > t * request.rsi.den

RuleBasedFallback(request) ==
    [type       |-> IF RequestRsiBelow(request, 30) THEN "bullish"
                    ELSE IF RequestRsiAbove(request, 70) THEN "bearish" ELSE "neutral",
     confidence |-> IF RequestRsiBelow(request, 30) THEN 75
                    ELSE IF RequestRsiAbove(request, 70) THEN 70 ELSE 50,
     keyLevels  |-> [support    |-> <<95 * request.price, 90 * request.price>>,
                     resistance |-> <<105 * request.price, 110 * request.price>>]]

C19_InsightsFallback ==
    (fn = "generateInsights" /\ aiService.provider # "called") =>
        /\ fnResult.outcome = "returned"
        /\ (~aiService.apiKey \/ aiService.provider = "rejected")
             => /\ fnResult.value.type = RuleBasedFallback(fnArgs).type
                /\ fnResult.value.confidence = RuleBasedFallback(fnArgs).confidence
                /\ fnResult.value.keyLevels = RuleBasedFallback(fnArgs).keyLevels

(***************************************************************************)
(* C20.  For a non-empty asset list generateHistoricalData publishes       *)
(* exactly 30 points in chronological order, oldest day first and today    *)
(* last, every point's value is at least 30% of the current total value,   *)
(* and the first point's change is 0; for an empty asset list it publishes *)
(* the empty series.                                                       *)
(***************************************************************************)
\* The sum of the totalValue fields of the assets from index k on.
RECURSIVE TotalFrom(_, _)
TotalFrom(assets, k) ==
    IF k > Len(assets) THEN 0 ELSE assets[k].totalValue + TotalFrom(assets, k + 1)

C20_HistoricalSeries ==
    fn = "generateHistoricalData" =>
        LET data   == fnResult.value
            assets == fnArgs.assets
        IN  IF assets = <<>> THEN data = <<>> /\ historicalData = 0
            ELSE /\ Len(data) = 30
                 /\ historicalData = 30
                 /\ \A k \in 1..(Len(data) - 1) : data[k + 1].date = data[k].date + 1
                 /\ data[Len(data)].date = 0
                 /\ \A k \in 1..Len(data) :
                        10 * data[k].value >= 3 * ValueUnit * TotalFrom(assets, 1)
                 /\ data[1].change = Int2Num(0)

\* A portfolio worth something, with a day below and a day above its
\* current total.
C20_Witness ==
    /\ fn = "generateHistoricalData"
    /\ Len(fnArgs.assets) = 2
    /\ TotalFrom(fnArgs.assets, 1) > 0
    /\ \E k \in 1..Len(fnResult.value) :
          fnResult.value[k].value < ValueUnit * TotalFrom(fnArgs.assets, 1)
    /\ \E k \in 1..Len(fnResult.value) :
          fnResult.value[k].value > ValueUnit * TotalFrom(fnArgs.assets, 1)
    /\ fnResult.value[2].change # Int2Num(0)

(***************************************************************************)
(* C21.  cryptoAPI.mapSymbolToId never raises: for a symbol of its table   *)
(* it returns the table's id whatever the letter case of the input, and    *)
(* for every other symbol it returns the lower-cased symbol.               *)
(***************************************************************************)
\* The symbols of the table that can be written with the characters in use.
KnownSymbols ==
    {<<<<"B", "T", "C">>, "bitcoin">>, <<<<"E", "T", "H">>, "ethereum">>,
     <<<<"E", "T", "C">>, "ethereum-classic">>, <<<<"B", "C", "H">>, "bitcoin-cash">>}

SameLetter(a, b) ==
    a = b \/ \E i \in 1..5 : {a, b} = {LowerLetters[i], UpperLetters[i]}

EqualIgnoringCase(s, t) ==
    Len(s) = Len(t) /\ \A i \in 1..Len(s) : SameLetter(s[i], t[i])

C21_SymbolMappingTotal ==
    fn = "mapSymbolToId" =>
        /\ fnResult.outcome = "returned"
        /\ \A known \in KnownSymbols :
              EqualIgnoringCase(fnArgs.symbol, known[1]) => fnResult.value = known[2]
        /\ (\A known \in KnownSymbols : ~EqualIgnoringCase(fnArgs.symbol, known[1]))
              => fnResult.value = lowerCaseString(fnArgs.symbol)

\* A table symbol typed in mixed case.
C21_Witness ==
    /\ fn = "mapSymbolToId"
    /\ fnArgs.symbol = <<"b", "T", "c">>
    /\ fnResult = Returned("bitcoin")

(***************************************************************************)
(* C22.  calculateMACD returns macd = EMA(prices, 12) - EMA(prices, 26),   *)
(* signal = the 9-period EMA of the differences EMA12 - EMA26 of the       *)
(* prefixes prices[0..i] for i = 26 .. len - 1, and histogram = macd -     *)
(* signal up to the rounding to 4 decimals; for a series of fewer than 26  *)
(* samples all three are 0.                                                *)
(***************************************************************************)
\* EMA12 - EMA26 of the prefixes of 27, 28, ..., len prices.
PrefixDifferences(p) ==
    [k \in 1..Max(Len(p) - 26, 0) |->
        calculateEMA(SubSeq(p, 1, 26 + k), 1, 12) - calculateEMA(SubSeq(p, 1, 26 + k), 1, 26)]

C22_MACDComposition ==
    fn = "calculateMACD" =>
        LET p == fnArgs.prices
            r == fnResult.value
        IN  /\ r.macd = calculateEMA(p, 1, 12) - calculateEMA(p, 1, 26)
            /\ r.signal = calculateEMA(PrefixDifferences(p), Scale, 9)
            /\ Abs(r.histogram - (r.macd - r.signal)) <= 1
            /\ Len(p) < 26 => (r.macd = 0 /\ r.signal = 0 /\ r.histogram = 0)

(***************************************************************************)
(* C23.  calculateEMA(prices, period) returns 0 when len(prices) < period; *)
(* otherwise the last value of ema[0] = prices[0],                         *)
(* ema[i] = prices[i] * m + ema[i-1] * (1 - m) with m = 2 / (period + 1),  *)
(* run over every element of the series, rounded to 4 decimals.            *)
(***************************************************************************)
\* ema[i - 1] of the recurrence with multiplier m, as a fraction.
RECURSIVE Recurrence(_, _, _)
Recurrence(p, m, i) ==
    IF i = 1 THEN Int2Num(p[1])
    ELSE LET last == Recurrence(p, m, i - 1)
         IN  JSDiv(p[i] * m.num * last.den + last.num * (m.den - m.num),
                   m.den * last.den)

\* r / Scale is a nearest multiple of 1 / Scale to the fraction x.
NearestTo(r, x) == 2 * Abs(r * x.den - Scale * x.num) <= x.den

C23_EMAIsRecurrence ==
    fn = "calculateEMA" =>
        IF Len(fnArgs.prices) < fnArgs.period THEN fnResult.value = 0
        ELSE NearestTo(fnResult.value,
                       Recurrence(fnArgs.prices, JSDiv(2, fnArgs.period + 1),
                                  Len(fnArgs.prices)))

\* A series longer than the period whose early prices weigh in the result.
C23_Witness ==
    /\ fn = "calculateEMA"
    /\ Len(fnArgs.prices) > fnArgs.period
    /\ fnArgs.period > 1
    /\ fnArgs.prices[1] # fnArgs.prices[Len(fnArgs.prices)]
    /\ fnResult.value % Scale # 0

(***************************************************************************)
(* C24.  calculateSupportResistance returns, for support and for           *)
(* resistance, at most 3 levels; every returned level belongs to a group   *)
(* of local extrema (2-point symmetric window) lying within 1% of each     *)
(* other that has at least minTouches members; the returned levels are     *)
(* ordered by group touch count, highest first; and each returned level is *)
(* the average of its group's members.                                     *)
(***************************************************************************)
\* The sum of the touches at the positions of G.
RECURSIVE TouchSum(_, _)
TouchSum(touches, G) ==
    IF G = {} THEN 0
    ELSE LET i == CHOOSE x \in G : TRUE
         IN  touches[i].num + TouchSum(touches, G \ {i})

\* The touches at the positions of G lie within 1% of each other.
WithinOnePercent(touches, G) ==
    \A i, j \in G : 100 * Abs(touches[i].num - touches[j].num)
                        < Max(touches[i].num, touches[j].num)

\* Some choice of one group of touches per returned level explains the
\* levels: each group has minTouches members or more within 1% of each
\* other, the level is their average, and the groups come largest first.
LevelsAreGroupAverages(touches, levels, minTouches) ==
    /\ Len(levels) <= 3
    /\ \E group \in [1..Len(levels) -> SUBSET (1..Len(touches))] :
          /\ \A k \in 1..Len(levels) :
                /\ Cardinality(group[k]) >= minTouches
                /\ group[k] # {}
                /\ WithinOnePercent(touches, group[k])
                /\ levels[k] = JSDiv(TouchSum(touches, group[k]), Cardinality(group[k]))
          /\ \A k \in 1..(Len(levels) - 1) :
                Cardinality(group[k]) >= Cardinality(group[k + 1])

C24_LevelsAreGroupAverages ==
    fn = "calculateSupportResistance" =>
        /\ LevelsAreGroupAverages(supportTouches(fnArgs.prices),
                                  fnResult.value.support, fnArgs.minTouches)
        /\ LevelsAreGroupAverages(resistanceTouches(fnArgs.prices),
                                  fnResult.value.resistance, fnArgs.minTouches)

(***************************************************************************)
(* C25.  detectPatterns emits a Head and Shoulders result only when the    *)
(* series has at least 20 samples, the index of the maximum of the last 20 *)
(* samples falls strictly inside positions 5..15, and the left and right   *)
(* shoulder peaks differ by less than 5% relative to the left shoulder;    *)
(* when emitted it is BEARISH with probability 75, target =                *)
(* currentPrice * 0.95 and stopLoss = head * 1.02, and at most one such    *)
(* result is emitted per call.                                             *)
(***************************************************************************)
\* The Head and Shoulders results among the patterns returned.
HeadAndShouldersResults ==
    SelectSeq(fnResult.value, LAMBDA r : r.pattern = "Head and Shoulders")

\* The 0-based index of the first greatest sample of the last 20.
HeadIndex(p) ==
    LET recent == SliceLast(p, 20)
    IN  (CHOOSE i \in 1..20 : \A j \in 1..20 :
            recent[j] <= recent[i] /\ (j < i => recent[j] < recent[i])) - 1

\* The peaks before and after the head: the greatest sample among those
\* more than two places before it, and among those more than one place
\* after it.
LeftShoulderPeak(p) ==
    LET recent == SliceLast(p, 20)
    IN  CHOOSE x \in {recent[j] : j \in 1..(HeadIndex(p) - 2)} :
            \A j \in 1..(HeadIndex(p) - 2) : recent[j] <= x

RightShoulderPeak(p) ==
    LET recent == SliceLast(p, 20)
    IN  CHOOSE x \in {recent[j] : j \in (HeadIndex(p) + 3)..20} :
            \A j \in (HeadIndex(p) + 3)..20 : recent[j] <= x

\* What the claim says of a call that emitted, but for the place of the head.
HeadAndShouldersAsClaimed(p) ==
    /\ Len(p) >= 20
    /\ 20 * Abs(LeftShoulderPeak(p) - RightShoulderPeak(p)) < LeftShoulderPeak(p)
    /\ Len(HeadAndShouldersResults) = 1
    /\ HeadAndShouldersResults[1].direction = "BEARISH"
    /\ HeadAndShouldersResults[1].probability = 75
    /\ 100 * HeadAndShouldersResults[1].target = 95 * p[Len(p)] * Scale
    /\ 100 * HeadAndShouldersResults[1].stopLoss
          = 102 * SliceLast(p, 20)[HeadIndex(p) + 1] * Scale

\* The claim as stated: the head strictly inside positions 5..15.
C25_HeadStrictlyInside ==
    (fn = "detectPatterns" /\ HeadAndShouldersResults # <<>>) =>
        /\ Len(fnArgs.prices) >= 20
        /\ HeadIndex(fnArgs.prices) > 5
        /\ HeadIndex(fnArgs.prices) < 15
        /\ HeadAndShouldersAsClaimed(fnArgs.prices)

\* The claim as amended: the head at one of the positions 5..15, the two
\* ends included.
C25_HeadWithinBounds ==
    (fn = "detectPatterns" /\ HeadAndShouldersResults # <<>>) =>
        /\ Len(fnArgs.prices) >= 20
        /\ HeadIndex(fnArgs.prices) >= 5
        /\ HeadIndex(fnArgs.prices) <= 15
        /\ HeadAndShouldersAsClaimed(fnArgs.prices)

\* A head at position 15 of the last 20 of 21 prices, between shoulders
\* of different heights, was emitted.
C25_Witness ==
    /\ fn = "detectPatterns"
    /\ Len(fnArgs.prices) = 21
    /\ HeadAndShouldersResults # <<>>
    /\ HeadIndex(fnArgs.prices) = 15
    /\ LeftShoulderPeak(fnArgs.prices) # RightShoulderPeak(fnArgs.prices)

(***************************************************************************)
(* C26.  detectPatterns emits Double Top (BEARISH, probability 70, target  *)
(* current * 0.94, stop max(pair) * 1.02) exactly when the series has at   *)
(* least 30 samples and the last two of all its local maxima (a sample     *)
(* greater than both immediate neighbours) differ by less than 2% relative *)
(* to the earlier one, and Double Bottom (BULLISH, probability 70, target  *)
(* current * 1.06, stop min(pair) * 0.98) exactly when the same holds for  *)
(* the last two of all its local minima; with fewer than 30 samples        *)
(* neither is emitted.                                                     *)
(***************************************************************************)
\* The samples with two immediate neighbours, in order.
WithNeighbours(p) == [k \in 1..Max(Len(p) - 2, 0) |-> k + 1]

AllLocalMaxima(p) ==
    LET at == SelectSeq(WithNeighbours(p), LAMBDA j : p[j] > p[j - 1] /\ p[j] > p[j + 1])
    IN  [k \in 1..Len(at) |-> p[at[k]]]

AllLocalMinima(p) ==
    LET at == SelectSeq(WithNeighbours(p), LAMBDA j : p[j] < p[j - 1] /\ p[j] < p[j + 1])
    IN  [k \in 1..Len(at) |-> p[at[k]]]

\* The last two of the extremes differ by less than 2% of the earlier one.
LastTwoWithinTwoPercent(extremes) ==
    /\ Len(extremes) >= 2
    /\ 50 * Abs(extremes[Len(extremes) - 1] - extremes[Len(extremes)])
          < extremes[Len(extremes) - 1]

ResultsNamed(name) == SelectSeq(fnResult.value, LAMBDA r : r.pattern = name)

C26_DoubleTopAndBottom ==
    fn = "detectPatterns" =>
        LET p       == fnArgs.prices
            maxima  == AllLocalMaxima(p)
            minima  == AllLocalMinima(p)
        IN  /\ ResultsNamed("Double Top") =
                  IF Len(p) >= 30 /\ LastTwoWithinTwoPercent(maxima)
                  THEN <<[pattern |-> "Double Top", probability |-> 70,
                          direction |-> "BEARISH",
                          target |-> (94 * p[Len(p)] * Scale) \div 100,
                          stopLoss |-> (102 * Max(maxima[Len(maxima) - 1],
                                                  maxima[Len(maxima)]) * Scale) \div 100]>>
                  ELSE <<>>
            /\ ResultsNamed("Double Bottom") =
                  IF Len(p) >= 30 /\ LastTwoWithinTwoPercent(minima)
                  THEN <<[pattern |-> "Double Bottom", probability |-> 70,
                          direction |-> "BULLISH",
                          target |-> (106 * p[Len(p)] * Scale) \div 100,
                          stopLoss |-> (98 * Min(minima[Len(minima) - 1],
                                                 minima[Len(minima)]) * Scale) \div 100]>>
                  ELSE <<>>

(***************************************************************************)
(* C27.  Signed-out isolation: whenever the auth user is null,             *)
(* useSupabasePortfolio publishes an empty portfolio (assets = [], totals  *)
(* 0, historicalData = []) and keeps it empty until a user signs in, even  *)
(* when a loadPortfolio or updateAssetsWithLivePrices call that started    *)
(* before the sign-out completes after it.                                 *)
(***************************************************************************)
C27_SignedOutEmpty ==
    (hook = "supabase" /\ ~user) =>
        /\ portfolioData.assets = {}
        /\ portfolioData.totalValue = 0
        /\ portfolioData.totalChange = 0
        /\ historicalData = 0

(***************************************************************************)
(* C28.  Every loadPortfolio call started with a signed-in user eventually *)
(* publishes isLoading = false on every outcome (live prices, fallback,    *)
(* empty portfolio, portfolio or asset query error, default-portfolio      *)
(* creation error), provided every awaited call eventually resolves or     *)
(* rejects; on a store error the previously published assets and totals    *)
(* are left unchanged and error is set.                                    *)
(***************************************************************************)
\* Call c is a loadPortfolio call in flight (in updateAssetsWithLivePrices
\* it is the call that was given the portfolioId).
LoadInFlight(c) ==
    \/ pc[c] \in {"load.portfolios", "load.insert", "load.assets"}
    \/ pc[c] \in {"update.fetch", "update.write"} /\ call[c].withPortfolioId

\* Call c is awaiting an answer of the store.
AwaitingStore(c) == pc[c] \in {"load.portfolios", "load.insert", "load.assets"}

\* The step in which the loadPortfolio call c ends publishes
\* isLoading = false; when it ends on a store error, it sets error and
\* leaves the assets and the totals as they were.
LoadEndsPublishing(c) ==
    (LoadInFlight(c) /\ pc'[c] = "idle") =>
        /\ portfolioData'.isLoading = FALSE
        /\ (AwaitingStore(c) /\ portfolioData'.error # NullError) =>
              /\ portfolioData'.error = "message"
              /\ portfolioData'.assets = portfolioData.assets
              /\ portfolioData'.totalValue = portfolioData.totalValue
              /\ portfolioData'.totalChange = portfolioData.totalChange
              /\ portfolioData'.changePercent = portfolioData.changePercent
        /\ (AwaitingStore(c) /\ portfolioData'.error = NullError) =>
              portfolioData' = EmptyPortfolioData

C28_LoadEventuallySettles ==
    /\ [][\A c \in Calls : LoadEndsPublishing(c)]_vars
    /\ \A c \in Calls : LoadInFlight(c) ~> (pc[c] = "idle")

\* A load has ended on a store error over a published portfolio: the
\* holdings are still shown, with the error.
C28_Witness ==
    /\ \A c \in Calls : pc[c] = "idle"
    /\ portfolioData.error = "message"
    /\ portfolioData.isLoading = FALSE
    /\ portfolioData.assets # {}
    /\ user

(***************************************************************************)
(* C29.  CryptoAPI.fetchWithCache serves a cached value only if it was     *)
(* stored by a successful (response.ok) fetch of the same URL less than    *)
(* cacheTimeout (60000 ms) before the call; a failed or non-ok fetch       *)
(* rethrows and leaves the cache unchanged, so an error is never cached    *)
(* and an entry older than the timeout is never returned.                  *)
(***************************************************************************)
\* A call settles in this step.
CallSettles == fn' = "fetchWithCache" /\ <<fnArgs', fnResult', fetches'>> # <<fnArgs, fnResult, fetches>>

\* The settling call was answered without a fetch: from the cache.
AnsweredFromCache == CallSettles /\ fetches' = fetches /\ fnResult'.outcome = "returned"

\* An entry of the URL asked for, younger than cacheTimeout at the call,
\* holds the value served.
ServedEntryIsFresh ==
    AnsweredFromCache =>
        \E e \in cache :
            /\ e.url = fnArgs'.url
            /\ e.data = fnResult'.value
            /\ fnArgs'.at - e.timestamp < cacheTimeout
            /\ e.timestamp <= fnArgs'.at

\* The cache changes only when a call suspended at response.json(), after
\* an ok response, settles by returning: the entry of its URL becomes the
\* data of that response, stamped now.
OnlySuccessIsStored ==
    cache' # cache =>
        \E f \in fetches :
            /\ f.stage = "json"
            /\ f \notin fetches'
            /\ fnResult' = Returned(f.data)
            /\ cache' = {e \in cache : e.url # f.url}
                        \cup {[url |-> f.url, data |-> f.data, timestamp |-> now]}

\* A call that throws leaves the cache as it is.
FailureKeepsCache == (CallSettles /\ fnResult'.outcome = "threw") => cache' = cache

\* Every entry holds the data of a response for its own URL, served no
\* later than the entry was stored; a URL has at most one entry.
CacheHoldsResponses ==
    /\ \A e \in cache : e.data.url = e.url /\ e.data.asOf <= e.timestamp /\ e.timestamp <= now
    /\ \A e1, e2 \in cache : e1.url = e2.url => e1 = e2

C29_CacheServesFreshSuccess ==
    /\ [][ServedEntryIsFresh /\ OnlySuccessIsStored /\ FailureKeepsCache]_vars
    /\ [](CacheHoldsResponses)

\* A call at 60000 ms was served the entry stored at 30000 ms, while the
\* other URL's entry of time 0 was no longer fresh.
C29_Witness ==
    /\ fn = "fetchWithCache"
    /\ fnResult.outcome = "returned"
    /\ fnArgs.at = 2 * TickMs
    /\ \E e \in cache :
          e.url = fnArgs.url /\ e.timestamp = TickMs /\ e.data = fnResult.value
    /\ \E e \in cache : e.url # fnArgs.url /\ e.timestamp = 0
    /\ now = fnArgs.at
    /\ fetches = {}

(***************************************************************************)
(* C30.  updateAssetsWithLivePrices writes current_price and total_value   *)
(* to the store only when it was called with a portfolioId and a live      *)
(* price was obtained for that holding; a fallback-priced holding, the     *)
(* live-price-failure path and the periodic refresh (no portfolioId) leave *)
(* the store unchanged; and no reconciliation ever changes a stored        *)
(* quantity or purchase_price or adds or deletes a holding.                *)
(***************************************************************************)
\* Call c is inside updateAssetsWithLivePrices and takes this step.
ReconciliationStep(c) ==
    /\ pc[c] \in {"update.fetch", "update.write"}
    /\ <<pc'[c], call'[c]>> # <<pc[c], call[c]>>

\* What a reconciliation may not touch in a row.
StoredHolding(row) ==
    [id |-> row.id, portfolio_id |-> row.portfolio_id, symbol |-> row.symbol,
     quantity |-> row.quantity, purchase_price |-> row.purchase_price]

\* The rows this step has written.
RowsWritten == {r \in portfolio_assets' : r \notin portfolio_assets}

StoreFrame(c) ==
    ReconciliationStep(c) =>
        /\ portfolios' = portfolios
        /\ {StoredHolding(r) : r \in portfolio_assets'}
              = {StoredHolding(r) : r \in portfolio_assets}
        /\ Cardinality(portfolio_assets') = Cardinality(portfolio_assets)
        /\ \A r \in RowsWritten :
              /\ call[c].withPortfolioId
              /\ \E a \in call[c].dbAssets : a.id = r.id
              /\ market[toLowerCase(r.symbol)].price # 0
              /\ r.current_price = market[toLowerCase(r.symbol)].price
              /\ r.total_value = r.quantity * market[toLowerCase(r.symbol)].price
        /\ (~call[c].withPortfolioId \/ LivePricesRejected(c))
              => portfolio_assets' = portfolio_assets

C30_ReconciliationStoreFrame == [][\A c \in Calls : StoreFrame(c)]_vars

\* A load has written the live price of BTC to its row while the row of
\* ETH, for which the provider has no price, is as it was stored.
C30_Witness ==
    /\ market["btc"].price = 200
    /\ market["eth"] = NoQuote
    /\ SecondRow \in portfolio_assets
    /\ \E r \in portfolio_assets :
          /\ StoredHolding(r) = StoredHolding(EarlierRow)
          /\ r.current_price = 200
          /\ r.total_value = 200
    /\ \A c \in Calls : pc[c] = "idle"
    /\ portfolioData.totalValue = 400

====
